---- MODULE Spec2Model ----
(***************************************************************************)
(* A model of code/structure_data.py: the grouping of raw filings by       *)
(* normalized company name, the deduplication pass over the sorted keys,   *)
(* and the assembly, validation and emission of Company records.           *)
(*                                                                         *)
(* Text is modelled as a sequence of code points (ASCII), so that          *)
(* lowercasing, stripping, splitting, substring search, the regular        *)
(* expressions and lexicographic comparison are all computed as the        *)
(* Python code computes them.  A Python dict is a function whose DOMAIN is *)
(* the set of keys present; None is the value None below.                  *)
(***************************************************************************)
EXTENDS Integers, Sequences, FiniteSets, TLC

(***************************************************************************)
(* Python str primitives.                                                  *)
(***************************************************************************)

\* str.isspace() of one character / the regex class \s (ASCII range)
IsSpace(c) == c \in {9, 10, 11, 12, 13, 28, 29, 30, 31, 32}

\* the regex class \w (ASCII range): letters, digits, underscore
IsWord(c) == c \in 48..57 \/ c \in 65..90 \/ c \in 97..122 \/ c = 95

LowerChar(c) == IF c \in 65..90 THEN c + 32 ELSE c

UpperChar(c) == IF c \in 97..122 THEN c - 32 ELSE c

\* str.lower()
lower(s) == [n \in 1..Len(s) |-> LowerChar(s[n])]

\* str.upper()
upper(s) == [n \in 1..Len(s) |-> UpperChar(s[n])]

\* s[p:] starts with lit (p is 1-based)
StartsAt(lit, s, p) ==
    /\ p >= 1
    /\ p + Len(lit) - 1 <= Len(s)
    /\ \A n \in 1..Len(lit) : s[p + n - 1] = lit[n]

\* the Python test `sub in s`
Contains(sub, s) == \E p \in 1..(Len(s) - Len(sub) + 1) : StartsAt(sub, s, p)

\* str.strip()
strip(s) ==
    LET keep == {n \in 1..Len(s) : ~IsSpace(s[n])}
    IN  IF keep = {} THEN <<>>
        ELSE LET lo == CHOOSE n \in keep : \A m \in keep : n <= m
                 hi == CHOOSE n \in keep : \A m \in keep : n >= m
             IN  SubSeq(s, lo, hi)

\* end (exclusive) of the run of non-whitespace characters starting at p
RECURSIVE TokenEnd(_, _)
TokenEnd(s, p) == IF p > Len(s) \/ IsSpace(s[p]) THEN p ELSE TokenEnd(s, p + 1)

\* str.split() with no argument, from position p on
RECURSIVE SplitFrom(_, _)
SplitFrom(s, p) ==
    IF p > Len(s) THEN <<>>
    ELSE IF IsSpace(s[p]) THEN SplitFrom(s, p + 1)
    ELSE LET e == TokenEnd(s, p)
         IN  <<SubSeq(s, p, e - 1)>> \o SplitFrom(s, e)

split(s) == SplitFrom(s, 1)

\* str.split(sep) for a non-empty separator, from position p on;
\* q is the start of the piece being scanned
RECURSIVE SplitSepFrom(_, _, _, _)
SplitSepFrom(s, sep, q, p) ==
    IF p > Len(s) THEN <<SubSeq(s, q, Len(s))>>
    ELSE IF StartsAt(sep, s, p)
         THEN <<SubSeq(s, q, p - 1)>> \o SplitSepFrom(s, sep, p + Len(sep), p + Len(sep))
         ELSE SplitSepFrom(s, sep, q, p + 1)

split_sep(s, sep) == SplitSepFrom(s, sep, 1, 1)

\* Python's < on str: lexicographic by code point, a proper prefix is smaller
RECURSIVE StrLessFrom(_, _, _)
StrLessFrom(a, b, n) ==
    IF n > Len(b) THEN FALSE
    ELSE IF n > Len(a) THEN TRUE
    ELSE IF a[n] # b[n] THEN a[n] < b[n]
    ELSE StrLessFrom(a, b, n + 1)

StrLess(a, b) == StrLessFrom(a, b, 1)

(***************************************************************************)
(* The regular expressions of normalize_company_name and should_exclude.   *)
(***************************************************************************)

\* \b between s[p-1] and s[p]
WordBoundary(s, p) ==
    LET before == p - 1 >= 1 /\ p - 1 <= Len(s) /\ IsWord(s[p - 1])
        after  == p >= 1 /\ p <= Len(s) /\ IsWord(s[p])
    IN  before # after

\* s[p:] starts with lit, ignoring case (re.IGNORECASE; lit is lowercase)
StartsAtIgnoreCase(lit, s, p) ==
    /\ p + Len(lit) - 1 <= Len(s)
    /\ \A n \in 1..Len(lit) : LowerChar(s[p + n - 1]) = lit[n]

\* r'\b(llc|l\.l\.c\.?|inc\.?|incorporated|corp\.?|corporation|co\.?|company)\b'
\* each alternative: its literal text, and whether \.? follows it
suffixes_1 ==
    << [lit |-> <<108,108,99>> (* "llc" *), dot |-> FALSE],
       [lit |-> <<108,46,108,46,99>> (* "l.l.c" *), dot |-> TRUE],
       [lit |-> <<105,110,99>> (* "inc" *), dot |-> TRUE],
       [lit |-> <<105,110,99,111,114,112,111,114,97,116,101,100>> (* "incorporated" *), dot |-> FALSE],
       [lit |-> <<99,111,114,112>> (* "corp" *), dot |-> TRUE],
       [lit |-> <<99,111,114,112,111,114,97,116,105,111,110>> (* "corporation" *), dot |-> FALSE],
       [lit |-> <<99,111>> (* "co" *), dot |-> TRUE],
       [lit |-> <<99,111,109,112,97,110,121>> (* "company" *), dot |-> FALSE] >>

\* r'\b(ltd\.?|limited|lp|l\.p\.?|llp|l\.l\.p\.?)\b'
suffixes_2 ==
    << [lit |-> <<108,116,100>> (* "ltd" *), dot |-> TRUE],
       [lit |-> <<108,105,109,105,116,101,100>> (* "limited" *), dot |-> FALSE],
       [lit |-> <<108,112>> (* "lp" *), dot |-> FALSE],
       [lit |-> <<108,46,112>> (* "l.p" *), dot |-> TRUE],
       [lit |-> <<108,108,112>> (* "llp" *), dot |-> FALSE],
       [lit |-> <<108,46,108,46,112>> (* "l.l.p" *), dot |-> TRUE] >>

\* r'\b(pllc|p\.l\.l\.c\.?|pc|p\.c\.?)\b'
suffixes_3 ==
    << [lit |-> <<112,108,108,99>> (* "pllc" *), dot |-> FALSE],
       [lit |-> <<112,46,108,46,108,46,99>> (* "p.l.l.c" *), dot |-> TRUE],
       [lit |-> <<112,99>> (* "pc" *), dot |-> FALSE],
       [lit |-> <<112,46,99>> (* "p.c" *), dot |-> TRUE] >>

\* The end (exclusive) of the match of \b(alts)\b that starts at p, trying the
\* alternatives from the a-th on in order, \.? greedy before backtracking;
\* 0 when there is none.
RECURSIVE AltMatch(_, _, _, _)
AltMatch(alts, s, p, a) ==
    IF a > Len(alts) THEN 0
    ELSE LET lit == alts[a].lit
             e   == p + Len(lit)
         IN  IF ~StartsAtIgnoreCase(lit, s, p) THEN AltMatch(alts, s, p, a + 1)
             ELSE IF alts[a].dot /\ e <= Len(s) /\ s[e] = 46 /\ WordBoundary(s, e + 1)
                  THEN e + 1
             ELSE IF WordBoundary(s, e) THEN e
             ELSE AltMatch(alts, s, p, a + 1)

\* re.sub(r'\b(alts)\b', '', s): the non-overlapping matches, leftmost first
RECURSIVE SubSuffixFrom(_, _, _)
SubSuffixFrom(alts, s, p) ==
    IF p > Len(s) THEN <<>>
    ELSE LET e == IF WordBoundary(s, p) THEN AltMatch(alts, s, p, 1) ELSE 0
         IN  IF e > 0 THEN SubSuffixFrom(alts, s, e)
             ELSE <<s[p]>> \o SubSuffixFrom(alts, s, p + 1)

sub_suffix(alts, s) == SubSuffixFrom(alts, s, 1)

\* (d/?b/?a|doing business as) at q: the end (exclusive) of the marker, or 0
dba_markers == << <<100,98,97>> (* "dba" *), <<100,47,98,97>> (* "d/ba" *), <<100,98,47,97>> (* "db/a" *), <<100,47,98,47,97>> (* "d/b/a" *), <<100,111,105,110,103,32,98,117,115,105,110,101,115,115,32,97,115>> (* "doing business as" *) >>

MarkerEnd(s, q) ==
    LET hits == {m \in 1..Len(dba_markers) : StartsAtIgnoreCase(dba_markers[m], s, q)}
    IN  IF hits = {} THEN 0
        ELSE q + Len(dba_markers[CHOOSE m \in hits : TRUE])

\* \s+.*$ from e on: some non-empty run of whitespace from e, after which no
\* newline stands before the end of the text (a final newline is allowed by $)
TailMatches(s, e) ==
    \E t \in (e + 1)..(Len(s) + 1) :
        /\ \A n \in e..(t - 1) : IsSpace(s[n])
        /\ \A n \in t..(Len(s) - 1) : s[n] # 10

\* the final newline that .*$ leaves unmatched: present when the greedy \s+
\* stops before a non-empty tail that ends in a newline
TailKeepsNewline(s, e) ==
    LET ws == CHOOSE r \in e..(Len(s) + 1) :
                 /\ \A n \in e..(r - 1) : IsSpace(s[n])
                 /\ (r > Len(s) \/ ~IsSpace(s[r]))
    IN  ws <= Len(s) /\ s[Len(s)] = 10

\* the start of the leftmost match of ,?\s*(marker)\s+.*$ whose marker is at q
DbaStart(s, q) ==
    LET ws == CHOOSE r \in 1..q :
                  /\ \A n \in r..(q - 1) : IsSpace(s[n])
                  /\ (r = 1 \/ ~IsSpace(s[r - 1]))
    IN  IF ws > 1 /\ s[ws - 1] = 44 THEN ws - 1 ELSE ws

\* re.sub(r',?\s*(d/?b/?a|doing business as)\s+.*$', '', s)
sub_dba(s) ==
    LET valid == {q \in 1..Len(s) :
                     LET e == MarkerEnd(s, q)
                     IN  e > 0 /\ e <= Len(s) /\ IsSpace(s[e]) /\ TailMatches(s, e)}
    IN  IF valid = {} THEN s
        ELSE LET q == CHOOSE x \in valid : \A y \in valid : x <= y
                 head == SubSeq(s, 1, DbaStart(s, q) - 1)
             IN  IF TailKeepsNewline(s, MarkerEnd(s, q)) THEN head \o <<10>> ELSE head

\* re.sub(r'[^\w\s]', ' ', s)
sub_punct(s) == [n \in 1..Len(s) |-> IF IsWord(s[n]) \/ IsSpace(s[n]) THEN s[n] ELSE 32]

\* re.sub(r'\s+', ' ', s)
RECURSIVE CollapseFrom(_, _)
CollapseFrom(s, p) ==
    IF p > Len(s) THEN <<>>
    ELSE IF IsSpace(s[p])
         THEN IF p > 1 /\ IsSpace(s[p - 1]) THEN CollapseFrom(s, p + 1)
              ELSE <<32>> \o CollapseFrom(s, p + 1)
         ELSE <<s[p]>> \o CollapseFrom(s, p + 1)

sub_spaces(s) == CollapseFrom(s, 1)

normalize_company_name(name) ==
    IF name = <<>> THEN <<>>
    ELSE LET n0 == strip(lower(name))
             n1 == sub_suffix(suffixes_1, n0)
             n2 == sub_suffix(suffixes_2, n1)
             n3 == sub_suffix(suffixes_3, n2)
             n4 == sub_dba(n3)
         IN  strip(sub_spaces(sub_punct(n4)))

\* EXCLUDE_PATTERNS: the literal of each pattern; anchored is ^...\b
EXCLUDE_PATTERNS ==
    << [lit |-> <<119,105,114,101,108,105,110,101,32,99,111,109,112,101,116,105,116,105,111,110,32,98,117,114,101,97,117>> (* "wireline competition bureau" *), anchored |-> FALSE],
       [lit |-> <<102,99,99>> (* "fcc" *), anchored |-> TRUE],
       [lit |-> <<102,101,100,101,114,97,108,32,99,111,109,109,117,110,105,99,97,116,105,111,110,115,32,99,111,109,109,105,115,115,105,111,110>> (* "federal communications commission" *), anchored |-> FALSE],
       [lit |-> <<110,97,116,105,111,110,97,108,32,116,101,108,101,99,111,109,109,117,110,105,99,97,116,105,111,110,115,32,97,110,100,32,105,110,102,111,114,109,97,116,105,111,110>> (* "national telecommunications and information" *), anchored |-> FALSE],
       [lit |-> <<100,101,112,97,114,116,109,101,110,116,32,111,102,32,106,117,115,116,105,99,101>> (* "department of justice" *), anchored |-> FALSE],
       [lit |-> <<110,97,116,105,111,110,97,108,32,97,115,115,111,99,105,97,116,105,111,110,32,111,102,32,114,101,103,117,108,97,116,111,114,121>> (* "national association of regulatory" *), anchored |-> FALSE] >>

\* re.search(pattern, text)
re_search(pat, text) ==
    IF pat.anchored
    THEN StartsAt(pat.lit, text, 1) /\ WordBoundary(text, Len(pat.lit) + 1)
    ELSE Contains(pat.lit, text)

\* the search on the name as written, not lowercased
should_exclude_case_sensitive(name) ==
    \E n \in 1..Len(EXCLUDE_PATTERNS) : re_search(EXCLUDE_PATTERNS[n], name)

should_exclude(name) ==
    \E n \in 1..Len(EXCLUDE_PATTERNS) : re_search(EXCLUDE_PATTERNS[n], lower(name))

(***************************************************************************)
(* difflib.SequenceMatcher(None, a, b).ratio(), for texts shorter than the *)
(* 200 characters at which difflib starts to treat popular characters as   *)
(* junk.                                                                   *)
(***************************************************************************)

\* length of the common run of a[i..ahi] and b[j..bhi]
RECURSIVE CommonLen(_, _, _, _, _, _)
CommonLen(a, i, ahi, b, j, bhi) ==
    IF i > ahi \/ j > bhi \/ a[i] # b[j] THEN 0
    ELSE 1 + CommonLen(a, i + 1, ahi, b, j + 1, bhi)

\* find_longest_match: the longest block common to a[alo..ahi] and b[blo..bhi];
\* of the longest, the one starting earliest in a, then earliest in b
find_longest_match(a, alo, ahi, b, blo, bhi) ==
    LET len[i \in alo..ahi, j \in blo..bhi] == CommonLen(a, i, ahi, b, j, bhi)
        sizes == {len[i, j] : i \in alo..ahi, j \in blo..bhi}
        best  == CHOOSE k \in sizes : \A m \in sizes : k >= m
        is    == {i \in alo..ahi : \E j \in blo..bhi : len[i, j] = best}
        i0    == CHOOSE i \in is : \A m \in is : i <= m
        js    == {j \in blo..bhi : len[i0, j] = best}
        j0    == CHOOSE j \in js : \A m \in js : j <= m
    IN  [i |-> i0, j |-> j0, k |-> best]

\* get_matching_blocks: the total size of the blocks, found by taking the
\* longest match and recursing to its left and to its right
RECURSIVE matching_size(_, _, _, _, _, _)
matching_size(a, alo, ahi, b, blo, bhi) ==
    IF alo > ahi \/ blo > bhi THEN 0
    ELSE LET m == find_longest_match(a, alo, ahi, b, blo, bhi)
         IN  IF m.k = 0 THEN 0
             ELSE m.k + matching_size(a, alo, m.i - 1, b, blo, m.j - 1)
                      + matching_size(a, m.i + m.k, ahi, b, m.j + m.k, bhi)

\* ratio() = 2.0 * matches / (len(a) + len(b)), 1.0 for two empty texts,
\* kept as the fraction num / den
ratio(a, b) ==
    IF Len(a) + Len(b) = 0 THEN [num |-> 1, den |-> 1]
    ELSE [num |-> 2 * matching_size(a, 1, Len(a), b, 1, Len(b)), den |-> Len(a) + Len(b)]

\* the test with a threshold of 0.90 in place of 0.95
ratio_above_090(r) == 10 * r.num > 9 * r.den

\* the test `ratio > 0.95` (0.95 = 19/20; no quotient of this size rounds across it)
ratio_above_threshold(r) == 20 * r.num > 19 * r.den

\* diff_count of the token loop, in tenths: 1 for a pair that differs by a
\* trailing 's' on either side (+= 0.1), 10 for any other differing pair (+= 1)
RECURSIVE diff_count(_, _, _)
diff_count(w1, w2, n) ==
    IF n > Len(w1) \/ n > Len(w2) THEN 0
    ELSE LET wa == w1[n]
             wb == w2[n]
             cost == IF wa = wb THEN 0
                     ELSE IF wa \o <<115>> = wb \/ wb \o <<115>> = wa THEN 1
                     ELSE 10
         IN  cost + diff_count(w1, w2, n + 1)

\* the token rule without the limit of one plural difference: diff_count < 1
token_rule_any_plural(k1, k2) ==
    LET w1 == split(k1)
        w2 == split(k2)
    IN  Len(w1) = Len(w2) /\ diff_count(w1, w2, 1) < 10

\* the token rule: same number of tokens and diff_count < 0.2
token_rule(k1, k2) ==
    LET w1 == split(k1)
        w2 == split(k2)
    IN  Len(w1) = Len(w2) /\ diff_count(w1, w2, 1) < 2

\* the pair decided by the ratio alone
is_duplicate_ratio_only(k1, k2) == ratio_above_threshold(ratio(k1, k2))

\* is_duplicate as the loop body decides it for the pair (k1, k2)
is_duplicate(k1, k2) ==
    IF ratio_above_threshold(ratio(k1, k2)) THEN TRUE ELSE token_rule(k1, k2)

(***************************************************************************)
(* Python values: None, dict.get, list.sort.                               *)
(***************************************************************************)

\* Python's None: no text holds the code point -1
None == <<-1>>

\* dict.get(key, default)
Get(d, key, default) == IF key \in DOMAIN d THEN d[key] ELSE default

\* the truth value of a str or None: `if v`
Truthy(v) == v # None /\ v # <<>>

\* sorted(S) for a set S of texts: list.sort() of keys, ascending by code point
RECURSIVE SortedKeys(_)
SortedKeys(S) ==
    IF S = {} THEN <<>>
    ELSE LET least == CHOOSE k \in S : \A m \in S \ {k} : StrLess(k, m)
         IN  <<least>> \o SortedKeys(S \ {least})

\* the key list left as list(grouped.keys()) gives it
keys_unsorted(ks) == ks

\* keys.sort() on the key list ks
keys_sort(ks) == SortedKeys({ks[m] : m \in 1..Len(ks)})

\* one step of a stable descending sort of the positions of the key list ks:
\* x goes after every position whose key is not smaller than its own, so
\* equal keys keep the order they came in
RECURSIVE InsertDesc(_, _, _)
InsertDesc(sorted, x, ks) ==
    IF sorted = <<>> THEN <<x>>
    ELSE IF StrLess(ks[Head(sorted)], ks[x]) THEN <<x>> \o sorted
    ELSE <<Head(sorted)>> \o InsertDesc(Tail(sorted), x, ks)

RECURSIVE SortDescFrom(_, _)
SortDescFrom(ks, n) ==
    IF n = 0 THEN <<>>
    ELSE InsertDesc(SortDescFrom(ks, n - 1), n, ks)

\* the sort without reverse=True: ascending
sort_asc(list, ks) ==
    LET perm == SortDescFrom(ks, Len(ks))
    IN  [n \in 1..Len(list) |-> list[perm[Len(list) + 1 - n]]]

\* list.sort(key=..., reverse=True) where ks[n] is the key of list[n]:
\* descending, stable
sort_desc(list, ks) ==
    LET perm == SortDescFrom(ks, Len(ks))
    IN  [n \in 1..Len(list) |-> list[perm[n]]]

\* comparing None with anything raises TypeError, and sorting a list of two or
\* more elements compares every element at least once
sort_raises(ks) == Len(ks) >= 2 /\ \E n \in 1..Len(ks) : ks[n] = None

(***************************************************************************)
(* The classifiers and the record assembler of structure_data.             *)
(***************************************************************************)

\* is_application_type: ["APPLICATION", "REQUEST", "PETITION"]
application_types == << <<65,80,80,76,73,67,65,84,73,79,78>> (* "APPLICATION" *), <<82,69,81,85,69,83,84>> (* "REQUEST" *), <<80,69,84,73,84,73,79,78>> (* "PETITION" *) >>

is_application_type(filing) ==
    LET sub_type == upper(Get(filing, "submission_type", <<>>))
    IN  \E n \in 1..Len(application_types) : Contains(application_types[n], sub_type)

\* is_likely_individual: "llc", "inc", "corp", "company", "co.", "communications",
\* "telecom", "voip", "network", "services", "solutions"
business_indicators ==
    << <<108,108,99>> (* "llc" *), <<105,110,99>> (* "inc" *), <<99,111,114,112>> (* "corp" *), <<99,111,109,112,97,110,121>> (* "company" *), <<99,111,46>> (* "co." *), <<99,111,109,109,117,110,105,99,97,116,105,111,110,115>> (* "communications" *),
       <<116,101,108,101,99,111,109>> (* "telecom" *), <<118,111,105,112>> (* "voip" *), <<110,101,116,119,111,114,107>> (* "network" *), <<115,101,114,118,105,99,101,115>> (* "services" *), <<115,111,108,117,116,105,111,110,115>> (* "solutions" *) >>

is_likely_individual(name) ==
    LET name_lower == lower(name)
        has_business_word ==
            \E n \in 1..Len(business_indicators) : Contains(business_indicators[n], name_lower)
        parts == split(name)
    IN  Len(parts) <= 3 /\ ~has_business_word

\* the number of the run of the script, which stands for the time of the run
\* (datetime.now() of the stats record)
VARIABLE run

\* an id from the time of the run as well, as uuid1 makes it
generate_company_id_by_time(normalized_name) ==
    [namespace |-> "6ba7b810-9dad-11d1-80b4-00c04fd430c8", name |-> normalized_name,
     time |-> run]

\* generate_company_id: uuid5 of a fixed namespace and the name; the hash is
\* kept symbolic, as the pair it is computed from
generate_company_id(normalized_name) ==
    [namespace |-> "6ba7b810-9dad-11d1-80b4-00c04fd430c8", name |-> normalized_name]

\* the IPES filter on a raw filing: "voip" / "52.15" in proceeding_description,
\* "inbox-52.15" in docket_number
is_ipes(f) ==
    LET proc_desc == lower(Get(f, "proceeding_description", <<>>))
        docket    == lower(Get(f, "docket_number", <<>>))
    IN  \/ Contains(<<118,111,105,112>> (* "voip" *), proc_desc)
        \/ Contains(<<53,50,46,49,53>> (* "52.15" *), proc_desc)
        \/ Contains(<<105,110,98,111,120,45,53,50,46,49,53>> (* "inbox-52.15" *), docket)

\* the key under which the grouping loop files f, or None when it drops f
grouping_key(f) ==
    IF ~is_ipes(f) THEN None
    ELSE LET name == strip(Get(f, "company_name", <<>>))
         IN  IF name = <<>> \/ should_exclude(name) THEN None
             ELSE LET normalized == normalize_company_name(name)
                  IN  IF normalized # <<>> THEN normalized ELSE None

\* primary_name = max(all_names, key=len) if all_names else normalized_name:
\* max returns the first of the longest
primary_name(all_names, normalized_name) ==
    IF all_names = <<>> THEN normalized_name
    ELSE LET longest == CHOOSE n \in 1..Len(all_names) :
                            /\ \A m \in 1..Len(all_names) : Len(all_names[m]) <= Len(all_names[n])
                            /\ \A m \in 1..(n - 1) : Len(all_names[m]) < Len(all_names[n])
         IN  all_names[longest]

\* the child record built from raw filing f; src, the position of f in the
\* input batch, stands for the identity of the dict f
filing_record(f, src) ==
    LET urls == IF Truthy(Get(f, "document_urls", None))
                THEN split_sep(Get(f, "document_urls", <<>>), <<59,32>> (* "; " *))
                ELSE <<>>
    IN  [filing_id       |-> Get(f, "submission_id", None),
         date_received   |-> Get(f, "date_received", None),
         docket_number   |-> Get(f, "docket_number", None),
         submission_type |-> Get(f, "submission_type", None),
         filing_status   |-> Get(f, "filing_status", None),
         document_urls   |-> IF urls = <<>> \/ urls = << <<>> >> THEN <<>> ELSE urls,
         detail_url      |-> Get(f, "detail_url", None),
         src             |-> src]

\* the key of the filings sort: x.get("date_received", "")
date_key(x) == Get(x, "date_received", <<>>)

\* the count of the distinct filing ids, not of the filings
filing_count_distinct_ids(processed_filings) ==
    Cardinality({processed_filings[m].filing_id : m \in 1..Len(processed_filings)})

\* filing_count of the company record
filing_count(processed_filings) == Len(processed_filings)

\* the gate without the applicant test
emission_gate_any_company(has_application, is_individual) == ~is_individual

\* the emission gate: `if has_application and not is_individual`
emission_gate(has_application, is_individual) == has_application /\ ~is_individual

\* Filing(**record) of schemas.py: every str field holds a str
filing_valid(r) ==
    /\ r.filing_id # None
    /\ r.date_received # None
    /\ r.docket_number # None
    /\ r.submission_type # None
    /\ r.filing_status # None
    /\ r.detail_url # None

\* the record taken without validation, as Company.model_construct takes it
company_valid_unchecked(c) == TRUE

\* Company(**company_record) of schemas.py does not raise
company_valid(c) ==
    /\ c.filing_count >= 0
    /\ \A n \in 1..Len(c.filings) : filing_valid(c.filings[n])

\* the key of the final sort of the companies: x.get("latest_filing_date", "")
latest_key(c) == Get(c, "latest_filing_date", <<>>)

(***************************************************************************)
(* The input batches.                                                      *)
(***************************************************************************)

\* a raw filing as fetch.py writes it, with every field structure_data reads
RawFiling(name, type, date) ==
    [submission_id          |-> <<49,48,48,49>> (* "1001" *),
     company_name           |-> name,
     date_received          |-> date,
     submission_type        |-> type,
     docket_number          |-> <<73,78,66,79,88,45,53,50,46,49,53>> (* "INBOX-52.15" *),
     proceeding_description |-> <<86,111,73,80,32,78,117,109,98,101,114,105,110,103>> (* "VoIP Numbering" *),
     filing_status          |-> <<68,73,83,83,69,77,73,78,65,84,69,68>> (* "DISSEMINATED" *),
     document_urls          |-> <<104,116,116,112,58,47,47,120,47,97,59,32,104,116,116,112,58,47,47,120,47,98>> (* "http://x/a; http://x/b" *),
     detail_url             |-> <<104,116,116,112,58,47,47,120,47,49,48,48,49>> (* "http://x/1001" *)]

\* the dict d without the key k
Without(d, k) == [x \in DOMAIN d \ {k} |-> d[x]]

\* the dict d with d[k] = v
With(d, k, v) == [x \in DOMAIN d \cup {k} |-> IF x = k THEN v ELSE d[x]]

Date2023 == <<50,48,50,51,45,48,53,45,48,49>> (* "2023-05-01" *)
Date2024 == <<50,48,50,52,45,48,49,45,48,49>> (* "2024-01-01" *)

\* the raw filings the batches are drawn from: names whose keys are equal
\* ("telecom"), merge ("telecom"/"telecoms", "telecoms"/"telecomss") or stay
\* apart ("telecom"/"telecomm", "telecom"/"telecomss"), an individual, an
\* excluded name, and filings with a missing or empty field
Pool ==
    { RawFiling(<<84,101,108,101,99,111,109>> (* "Telecom" *), <<65,80,80,76,73,67,65,84,73,79,78>> (* "APPLICATION" *), Date2023),
      RawFiling(<<84,101,108,101,99,111,109,115>> (* "Telecoms" *), <<80,101,116,105,116,105,111,110,32,102,111,114,32,87,97,105,118,101,114>> (* "Petition for Waiver" *), Date2024),
      RawFiling(<<84,101,108,101,99,111,109,115,115>> (* "Telecomss" *), <<67,79,77,77,69,78,84>> (* "COMMENT" *), <<>>),
      RawFiling(<<84,101,108,101,99,111,109,109>> (* "Telecomm" *), <<67,79,77,77,69,78,84>> (* "COMMENT" *), Date2023),
      Without(RawFiling(<<84,101,108,101,99,111,109,44,32,73,110,99,46>> (* "Telecom, Inc." *), <<67,79,77,77,69,78,84>> (* "COMMENT" *), <<>>), "date_received"),
      RawFiling(<<84,101,108,101,99,111,109>> (* "Telecom" *), <<67,79,77,77,69,78,84>> (* "COMMENT" *), <<>>),
      With(With(RawFiling(<<84,101,108,101,99,111,109>> (* "Telecom" *), <<65,80,80,76,73,67,65,84,73,79,78>> (* "APPLICATION" *), Date2024),
                "proceeding_description", <<82,111,98,111,99,97,108,108,115>> (* "Robocalls" *)), "docket_number", <<49,55,45,53,57>> (* "17-59" *)),
      Without(RawFiling(<<84,101,108,101,99,111,109,115>> (* "Telecoms" *), <<65,80,80,76,73,67,65,84,73,79,78>> (* "APPLICATION" *), Date2023), "submission_id"),
      RawFiling(<<74,111,104,110,32,83,109,105,116,104>> (* "John Smith" *), <<65,80,80,76,73,67,65,84,73,79,78>> (* "APPLICATION" *), Date2024),
      RawFiling(<<70,101,100,101,114,97,108,32,67,111,109,109,117,110,105,99,97,116,105,111,110,115,32,67,111,109,109,105,115,115,105,111,110>> (* "Federal Communications Commission" *), <<65,80,80,76,73,67,65,84,73,79,78>> (* "APPLICATION" *), Date2024) }

\* the longest batch drawn from Pool
MaxBatch == 3

Batches == UNION { [1..len -> Pool] : len \in 0..MaxBatch }

\* the two raw filings of the end-to-end scenario, with the listed fields only
AcmeBatch ==
    << [company_name    |-> <<65,99,109,101,32,67,111,109,109,117,110,105,99,97,116,105,111,110,115,32,76,76,67>> (* "Acme Communications LLC" *),
        submission_type |-> <<65,80,80,76,73,67,65,84,73,79,78,32,70,79,82,32,65,85,84,72,79,82,73,90,65,84,73,79,78>> (* "APPLICATION FOR AUTHORIZATION" *),
        date_received   |-> <<50,48,50,51,45,48,53,45,48,49>> (* "2023-05-01" *),
        document_urls   |-> <<104,116,116,112,58,47,47,120,47,100,111,99,49>> (* "http://x/doc1" *)],
       [company_name    |-> <<65,99,109,101,32,67,111,109,109,117,110,105,99,97,116,105,111,110,115>> (* "Acme Communications" *),
        submission_type |-> <<65,80,80,76,73,67,65,84,73,79,78>> (* "APPLICATION" *),
        date_received   |-> <<50,48,50,51,45,48,54,45,48,49>> (* "2023-06-01" *),
        document_urls   |-> <<>>] >>

\* three filings whose normalized keys are "alpha networks", "alpha network"
\* and "alpha netwerks"
AlphaBatch ==
    << RawFiling(<<65,108,112,104,97,32,78,101,116,119,111,114,107,115>> (* "Alpha Networks" *), <<65,80,80,76,73,67,65,84,73,79,78>> (* "APPLICATION" *), Date2023),
       RawFiling(<<65,108,112,104,97,32,78,101,116,119,111,114,107>> (* "Alpha Network" *), <<65,80,80,76,73,67,65,84,73,79,78>> (* "APPLICATION" *), Date2024),
       RawFiling(<<65,108,112,104,97,32,78,101,116,119,101,114,107,115>> (* "Alpha Netwerks" *), <<65,80,80,76,73,67,65,84,73,79,78>> (* "APPLICATION" *), Date2023) >>

\* filings without a usable name, and a name behind an exclusion pattern
\* that only matches once the name is stripped
EdgeBatch ==
    << Without(RawFiling(<<>>, <<65,80,80,76,73,67,65,84,73,79,78>> (* "APPLICATION" *), Date2023), "company_name"),
       RawFiling(<<32,32>> (* "  " *), <<65,80,80,76,73,67,65,84,73,79,78>> (* "APPLICATION" *), Date2023),
       RawFiling(<<32,70,67,67,32,83,116,97,102,102>> (* " FCC Staff" *), <<65,80,80,76,73,67,65,84,73,79,78>> (* "APPLICATION" *), Date2023),
       RawFiling(<<76,76,67>> (* "LLC" *), <<65,80,80,76,73,67,65,84,73,79,78>> (* "APPLICATION" *), Date2023) >>

\* two keys of two tokens each, both tokens differing by a trailing "s"
PluralBatch ==
    << RawFiling(<<86,111,105,112,32,78,101,116,115>> (* "Voip Nets" *), <<82,69,81,85,69,83,84>> (* "REQUEST" *), Date2023),
       RawFiling(<<86,111,105,112,115,32,78,101,116>> (* "Voips Net" *), <<67,79,77,77,69,78,84>> (* "COMMENT" *), Date2024) >>

\* two keys with a different number of tokens and a ratio above 0.95
RatioBatch ==
    << RawFiling(<<65,108,112,104,97,32,78,101,116,32,87,111,114,107>> (* "Alpha Net Work" *), <<65,80,80,76,73,67,65,84,73,79,78>> (* "APPLICATION" *), Date2023),
       RawFiling(<<65,108,112,104,97,32,78,101,116,119,111,114,107>> (* "Alpha Network" *), <<67,79,77,77,69,78,84>> (* "COMMENT" *), Date2024) >>

\* ten filings of ten names, "Voip A" to "Voip J", whose keys stay apart; the
\* fourth lacks submission_id
TenBatch ==
    [k \in 1..10 |->
        LET f == RawFiling(<<86,111,105,112,32>> (* "Voip " *) \o <<64 + k>>, <<65,80,80,76,73,67,65,84,73,79,78>> (* "APPLICATION" *), Date2023)
        IN  IF k = 4 THEN Without(f, "submission_id") ELSE f]

\* seven filings of seven names whose keys stay apart; the first six lack
\* detail_url
InvalidBatch ==
    [k \in 1..7 |->
        LET f == RawFiling(<<86,111,105,112,32>> (* "Voip " *) \o <<64 + k>>, <<65,80,80,76,73,67,65,84,73,79,78>> (* "APPLICATION" *), Date2024)
        IN  IF k <= 6 THEN Without(f, "detail_url") ELSE f]

\* two names of the same length whose keys "telecoms" and "telecom" merge, the
\* later key first in the batch
TieBatch ==
    << RawFiling(<<84,101,108,101,99,111,109,115>> (* "Telecoms" *), <<65,80,80,76,73,67,65,84,73,79,78>> (* "APPLICATION" *), Date2023),
       RawFiling(<<84,101,108,101,99,111,109,46>> (* "Telecom." *), <<65,80,80,76,73,67,65,84,73,79,78>> (* "APPLICATION" *), Date2024) >>

\* a name whose punctuation stands where the marker "dba" needs whitespace
DbaBatch ==
    << RawFiling(<<86,111,105,112,32,100,98,97,45,78,101,116>> (* "Voip dba-Net" *), <<65,80,80,76,73,67,65,84,73,79,78>> (* "APPLICATION" *), Date2023) >>

\* two applicants whose keys stay apart, the one with the older filing first
DateOrderBatch ==
    << RawFiling(<<86,111,105,112,32,65>> (* "Voip A" *), <<65,80,80,76,73,67,65,84,73,79,78>> (* "APPLICATION" *), Date2023),
       RawFiling(<<86,111,105,112,32,66>> (* "Voip B" *), <<65,80,80,76,73,67,65,84,73,79,78>> (* "APPLICATION" *), Date2024) >>

Scenarios ==
    {AcmeBatch, AlphaBatch, EdgeBatch, PluralBatch, RatioBatch,
     TenBatch, InvalidBatch, TieBatch, DbaBatch, DateOrderBatch}

(***************************************************************************)
(* structure_data as a state machine: one step per loop iteration.         *)
(***************************************************************************)

VARIABLES
    filings,               \* the argument: the list of raw filing dicts
    pc,                    \* "group", "dedup", "assemble", "done", "raised"
    n,                     \* grouping loop: position of the next filing
    grouped,               \* dict: normalized key -> list of filings (positions in filings)
    order,                 \* the insertion order of the keys of grouped
    keys,                  \* the sorted key list of the deduplication pass
    i,                     \* deduplication pass: position of k1 in keys
    j,                     \* deduplication pass: position of k2 in keys
    skip_keys,             \* the keys merged away
    compared,              \* the pairs (k1, k2) whose ratio was computed
    pos,                   \* assembly loop: position in grouped.items()
    structured_companies,  \* the validated companies, later the return value
    validation_errors,
    error_log,
    validation_stats,      \* the stats record of the run, None until built
    val_file,              \* data/monitoring/validation_stats.json
    val_initial,           \* val_file before the first run
    emitted,               \* <<normalized_name, id>> of the companies of earlier runs
    normalized,            \* per filing the loop is past: its key, None if it was dropped
    input_file,            \* main: data/raw/ipes_filings.json
    stage,                 \* main: its position, "call" when structure_data is called without it
    written,               \* main: the output files written
    perm,                  \* second call: position in its batch -> position in the first batch
    first_call,            \* second call: what the first call's deduplication pass left, if any
    skip_fetch,            \* run_pipeline: args.skip_fetch
    skip_download,         \* run_pipeline: args.skip_download
    ppc,                   \* run_pipeline: the step main is at, "exited" once the process has ended
    invoked,               \* run_pipeline: the steps run so far, each with its return code
    exit_code,             \* run_pipeline: <<>> while it runs, then its exit code
    run_stats,             \* data/monitoring/run_stats.json
    run_stats_initial,     \* run_stats when the pipeline started
    failed_stats,          \* data/run_stats.json
    opc,                   \* overlapping runs: per run, where it is in lines 290-309
    local_history,         \* overlapping runs: per run, its local val_history
    server,                \* fetch: the number of records the server holds for the query
    reports_total,         \* fetch: whether the server reports the total
    limit,                 \* fetch: the page size
    max_records,           \* fetch: the cap, 0 for None or 0
    offset,                \* fetch: the offset of the next page
    all_records,           \* fetch: the records collected
    known_total,           \* fetch: the local total, taken from a page, 0 for None
    fpc,                   \* fetch: "loop" or "returned"
    request_failed,        \* fetch: whether a page request raised
    companies,             \* enrich: the normalized names of the companies loaded
    ei,                    \* enrich: the loop index i
    cache,                 \* enrich: the cache dict in memory (its keys)
    cache_file,            \* enrich: enrichment_cache.json (its keys)
    obtained,              \* enrich: the names enrich_company returned a result for in this run
    epc                    \* enrich: "loop" or "done"

\* the store: what val_file.exists() and json.load find.  state is "absent",
\* "unreadable" (open raises), "invalid_json" (json.load raises),
\* "json_object" (the file holds the one JSON value items[1], not a list) or
\* "json_list" (the file holds the list items)
Store(state, items) == [state |-> state, items |-> items]

Absent == Store("absent", <<>>)

\* the variables of structure_data
svars == <<filings, pc, n, grouped, order, keys, i, j, skip_keys, compared, pos,
           structured_companies, validation_errors, error_log, validation_stats,
           val_file, run, val_initial, emitted, normalized>>

\* the variables of structure_data other than the history file
slocals == <<filings, pc, n, grouped, order, keys, i, j, skip_keys, compared, pos,
             structured_companies, validation_errors, error_log, validation_stats,
             run, val_initial, emitted, normalized>>

\* the variables of structure_data.main
mainvars == <<input_file, stage, written>>

\* the record of a first call, kept for a second call on the permuted batch
permvars == <<perm, first_call>>

\* the variables of run_pipeline.py
pipevars == <<skip_fetch, skip_download, ppc, invoked, exit_code,
              run_stats, run_stats_initial, failed_stats>>

\* the variables of two overlapping runs
overlapvars == <<opc, local_history>>

\* the variables of fetch_all_filings
fetchvars == <<server, reports_total, limit, max_records, offset, all_records, known_total, fpc,
               request_failed>>

\* the variables of enrich_data.main
enrichvars == <<companies, ei, cache, cache_file, obtained, epc>>

\* the variables of the other stages and of the pipeline
stagevars == <<pipevars, overlapvars, fetchvars, enrichvars>>

\* the variables structure_data does not touch
others == <<mainvars, permvars, stagevars>>

\* structure_data called directly: main is not running
NoMain ==
    /\ input_file = "json_list"
    /\ stage = "call"
    /\ written = {}
    /\ perm = <<>>
    /\ first_call = <<>>

\* run_pipeline.py is not running
NoPipeline ==
    /\ skip_fetch = FALSE
    /\ skip_download = FALSE
    /\ ppc = "idle"
    /\ invoked = <<>>
    /\ exit_code = <<>>
    /\ run_stats = Absent
    /\ run_stats_initial = Absent
    /\ failed_stats = Absent

\* no second run overlaps
NoOverlap ==
    /\ opc = <<>>
    /\ local_history = <<>>

\* fetch.py is not running
NoFetch ==
    /\ server = 0
    /\ reports_total = FALSE
    /\ limit = 1
    /\ max_records = 0
    /\ offset = 0
    /\ all_records = <<>>
    /\ known_total = 0
    /\ fpc = "idle"
    /\ request_failed = FALSE

\* enrich_data.py is not running
NoEnrich ==
    /\ companies = <<>>
    /\ ei = 0
    /\ cache = {}
    /\ cache_file = {}
    /\ obtained = {}
    /\ epc = "idle"

vars == <<svars, others>>

EmptyDict == [x \in {} |-> <<>>]

Init ==
    /\ filings \in Batches \cup Scenarios
    /\ pc = "group"
    /\ n = 1
    /\ grouped = EmptyDict
    /\ order = <<>>
    /\ keys = <<>>
    /\ i = 0
    /\ j = 0
    /\ skip_keys = {}
    /\ compared = {}
    /\ pos = 0
    /\ structured_companies = <<>>
    /\ validation_errors = 0
    /\ error_log = <<>>
    /\ validation_stats = None
    /\ val_file = Absent
    /\ run = 1
    /\ val_initial = val_file
    /\ emitted = {}
    /\ normalized = <<>>
    /\ NoMain
    /\ NoPipeline /\ NoOverlap /\ NoFetch /\ NoEnrich

\* grouped[key].append(f) on a defaultdict(list)
dict_append(d, key, f) ==
    [x \in DOMAIN d \cup {key} |-> IF x = key THEN Append(Get(d, key, <<>>), f) ELSE d[x]]

\* one iteration of `for f in filings`
GroupStep ==
    /\ pc = "group"
    /\ n <= Len(filings)
    /\ LET key == grouping_key(filings[n])
       IN  /\ normalized' = Append(normalized, key)
           /\ IF key = None
              THEN UNCHANGED <<grouped, order>>
              ELSE /\ grouped' = dict_append(grouped, key, n)
                   /\ order' = IF key \in DOMAIN grouped THEN order ELSE Append(order, key)
    /\ n' = n + 1
    /\ UNCHANGED <<filings, pc, keys, i, j, skip_keys, compared, pos,
                   structured_companies, validation_errors, error_log, validation_stats,
                   val_file, run, val_initial, emitted>>
    /\ UNCHANGED others

\* keys = list(grouped.keys()); keys.sort(); skip_keys = set()
SortKeys ==
    /\ pc = "group"
    /\ n > Len(filings)
    /\ keys' = keys_sort(order)
    /\ skip_keys' = {}
    /\ i' = 1
    /\ j' = 2
    /\ pc' = "dedup"
    /\ UNCHANGED <<filings, n, grouped, order, compared, pos,
                   structured_companies, validation_errors, error_log, validation_stats,
                   val_file, run, val_initial, emitted, normalized>>
    /\ UNCHANGED others

\* the merge with k2's filings put before k1's
merge_into_prepend(d, k1, k2) ==
    [x \in DOMAIN d \ {k2} |-> IF x = k1 THEN d[k2] \o d[k1] ELSE d[x]]

\* the merge without the extend: k2's filings go with k2
merge_into_drop(d, k1, k2) == [x \in DOMAIN d \ {k2} |-> d[x]]

\* grouped[k1].extend(grouped[k2]); del grouped[k2]
merge_into(d, k1, k2) ==
    [x \in DOMAIN d \ {k2} |-> IF x = k1 THEN d[k1] \o d[k2] ELSE d[x]]

\* the pass without skip_keys.add(k2)
skip_add_forgotten(skip, k2) == skip

\* skip_keys.add(k2)
skip_add(skip, k2) == skip \cup {k2}

\* the dict order of the keys once `del grouped[k]` has run
order_without(ord, k) == SelectSeq(ord, LAMBDA x : x # k)

\* `for i, k1 in enumerate(keys): if k1 in skip_keys: continue`
DedupOuterSkip ==
    /\ pc = "dedup"
    /\ i <= Len(keys)
    /\ j = i + 1
    /\ keys[i] \in skip_keys
    /\ i' = i + 1
    /\ j' = i + 2
    /\ UNCHANGED <<filings, pc, n, grouped, order, keys, skip_keys, compared, pos,
                   structured_companies, validation_errors, error_log, validation_stats,
                   val_file, run, val_initial, emitted, normalized>>
    /\ UNCHANGED others

\* `for k2 in keys[i+1:]: if k2 in skip_keys: continue`
DedupInnerSkip ==
    /\ pc = "dedup"
    /\ i <= Len(keys)
    /\ keys[i] \notin skip_keys
    /\ j <= Len(keys)
    /\ keys[j] \in skip_keys
    /\ j' = j + 1
    /\ UNCHANGED <<filings, pc, n, grouped, order, keys, i, skip_keys, compared, pos,
                   structured_companies, validation_errors, error_log, validation_stats,
                   val_file, run, val_initial, emitted, normalized>>
    /\ UNCHANGED others

\* the body of the inner loop for a pair (k1, k2) of keys not merged away:
\* compute the ratio, decide is_duplicate, and merge k2 into k1 if it is
DedupCompare ==
    /\ pc = "dedup"
    /\ i <= Len(keys)
    /\ keys[i] \notin skip_keys
    /\ j <= Len(keys)
    /\ keys[j] \notin skip_keys
    /\ compared' = compared \cup {<<keys[i], keys[j]>>}
    /\ IF is_duplicate(keys[i], keys[j])
       THEN /\ grouped' = merge_into(grouped, keys[i], keys[j])
            /\ order' = order_without(order, keys[j])
            /\ skip_keys' = skip_add(skip_keys, keys[j])
       ELSE UNCHANGED <<grouped, order, skip_keys>>
    /\ j' = j + 1
    /\ UNCHANGED <<filings, pc, n, keys, i, pos,
                   structured_companies, validation_errors, error_log, validation_stats,
                   val_file, run, val_initial, emitted, normalized>>
    /\ UNCHANGED others

\* the inner loop is exhausted: the outer loop takes the next k1
DedupInnerEnd ==
    /\ pc = "dedup"
    /\ i <= Len(keys)
    /\ keys[i] \notin skip_keys
    /\ j > Len(keys)
    /\ i' = i + 1
    /\ j' = i + 2
    /\ UNCHANGED <<filings, pc, n, grouped, order, keys, skip_keys, compared, pos,
                   structured_companies, validation_errors, error_log, validation_stats,
                   val_file, run, val_initial, emitted, normalized>>
    /\ UNCHANGED others

\* the outer loop is exhausted: on to `for normalized_name, company_filings in
\* grouped.items()`
DedupEnd ==
    /\ pc = "dedup"
    /\ i > Len(keys)
    /\ pc' = "assemble"
    /\ pos' = 1
    /\ UNCHANGED <<filings, n, grouped, order, keys, i, j, skip_keys, compared,
                   structured_companies, validation_errors, error_log, validation_stats,
                   val_file, run, val_initial, emitted, normalized>>
    /\ UNCHANGED others

\* processed_filings before the sort
processed_filings(company_filings) ==
    [m \in 1..Len(company_filings) |->
        filing_record(filings[company_filings[m]], company_filings[m])]

\* processed_filings.sort(key=lambda x: x.get("date_received", ""), reverse=True)
sorted_filings(processed) ==
    sort_desc(processed, [m \in 1..Len(processed) |-> date_key(processed[m])])

\* company_record for the cluster of normalized_name
company_record(normalized_name, company_filings) ==
    LET all_names == [m \in 1..Len(company_filings) |->
                         Get(filings[company_filings[m]], "company_name", <<>>)]
        name == primary_name(all_names, normalized_name)
        is_individual == is_likely_individual(name)
        has_application ==
            \E m \in 1..Len(company_filings) : is_application_type(filings[company_filings[m]])
        processed == sorted_filings(processed_filings(company_filings))
    IN  [id              |-> generate_company_id(normalized_name),
         entity_name     |-> name,
         normalized_name |-> normalized_name,
         entity_type     |-> IF is_individual THEN "Individual" ELSE "Company",
         is_applicant    |-> has_application,
         filing_count    |-> filing_count(processed),
         enrichment      |-> EmptyDict,
         filings         |-> processed]

\* one iteration of `for normalized_name, company_filings in grouped.items()`
AssembleStep ==
    /\ pc = "assemble"
    /\ pos <= Len(order)
    /\ LET normalized_name == order[pos]
           company_filings == grouped[normalized_name]
           unsorted == processed_filings(company_filings)
       IN  IF sort_raises([m \in 1..Len(unsorted) |-> date_key(unsorted[m])])
           THEN \* TypeError out of list.sort: structure_data raises
                /\ pc' = "raised"
                /\ UNCHANGED <<pos, structured_companies, validation_errors, error_log>>
           ELSE LET c == company_record(normalized_name, company_filings)
                IN  /\ pc' = pc
                    /\ pos' = pos + 1
                    /\ IF ~emission_gate(c.is_applicant, c.entity_type = "Individual")
                       THEN UNCHANGED <<structured_companies, validation_errors, error_log>>
                       ELSE IF company_valid(c)
                       THEN /\ structured_companies' = Append(structured_companies, c)
                            /\ UNCHANGED <<validation_errors, error_log>>
                       ELSE /\ validation_errors' = validation_errors + 1
                            /\ error_log' = Append(error_log,
                                   [name |-> normalized_name, error |-> "ValidationError"])
                            /\ UNCHANGED structured_companies
    /\ UNCHANGED <<filings, n, grouped, order, keys, i, j, skip_keys, compared,
                   validation_stats, val_file, run, val_initial, emitted, normalized>>
    /\ UNCHANGED others

\* the whole error log
error_samples_all(log) == log

\* error_log[:5]
error_samples(log) == SubSeq(log, 1, IF Len(log) < 5 THEN Len(log) ELSE 5)

\* the history without the append of the new record
history_append_skipped(val_history, stats) == val_history

\* val_history.append(validation_stats)
history_append(val_history, stats) == Append(val_history, stats)

\* val_history as the append finds it: [] when the file does not exist or
\* open or json.load raise, content when it is a list, [content] otherwise
load_history(file) ==
    IF file.state = "absent" THEN <<>>
    ELSE IF file.state \in {"unreadable", "invalid_json"} THEN <<>>
    ELSE IF file.state = "json_list" THEN file.items
    ELSE <<file.items[1]>>

\* json.dump(val_history, f): the file holds the list
dump_history(val_history) == Store("json_list", val_history)

\* the rest of structure_data: the sort of the companies, the stats record,
\* the history file, the return
Finish ==
    /\ pc = "assemble"
    /\ pos > Len(order)
    /\ structured_companies' =
           sort_desc(structured_companies,
                     [m \in 1..Len(structured_companies) |-> latest_key(structured_companies[m])])
    /\ validation_stats' =
           [timestamp       |-> run,
            total_processed |-> Len(structured_companies) + validation_errors,
            valid_records   |-> Len(structured_companies),
            invalid_records |-> validation_errors,
            error_samples   |-> error_samples(error_log)]
    /\ val_file' = dump_history(history_append(load_history(val_file), validation_stats'))
    /\ pc' = "done"
    /\ UNCHANGED <<filings, n, grouped, order, keys, i, j, skip_keys, compared, pos,
                   validation_errors, error_log, run, val_initial, emitted, normalized>>
    /\ UNCHANGED others

Next ==
    \/ GroupStep
    \/ SortKeys
    \/ DedupOuterSkip
    \/ DedupInnerSkip
    \/ DedupCompare
    \/ DedupInnerEnd
    \/ DedupEnd
    \/ AssembleStep
    \/ Finish

Spec == Init /\ [][Next]_vars

(***************************************************************************)
(* Sequential runs of the script over one data directory.                  *)
(***************************************************************************)

\* the most runs in a row
MaxRuns == 3

\* a stats record an earlier version of the store holds
OldStats ==
    [timestamp       |-> 0,
     total_processed |-> 2,
     valid_records   |-> 1,
     invalid_records |-> 1,
     error_samples   |-> << [name |-> <<118,111,105,112>> (* "voip" *), error |-> "ValidationError"] >>]

\* the stores a first run can find
Stores ==
    { Absent,
      Store("unreadable", <<>>),
      Store("invalid_json", <<>>),
      Store("json_object", <<OldStats>>),
      Store("json_list", <<>>),
      Store("json_list", <<OldStats>>) }

\* the batches of the runs: one company; the same company among other
\* records; no records; a cluster that fails validation; a cluster whose sort
\* raises
RunBatches ==
    { << RawFiling(<<84,101,108,101,99,111,109>> (* "Telecom" *), <<65,80,80,76,73,67,65,84,73,79,78>> (* "APPLICATION" *), Date2023) >>,
      << RawFiling(<<84,101,108,101,99,111,109,115>> (* "Telecoms" *), <<80,101,116,105,116,105,111,110,32,102,111,114,32,87,97,105,118,101,114>> (* "Petition for Waiver" *), Date2024),
         RawFiling(<<84,101,108,101,99,111,109,109>> (* "Telecomm" *), <<82,69,81,85,69,83,84>> (* "REQUEST" *), Date2023),
         RawFiling(<<84,101,108,101,99,111,109>> (* "Telecom" *), <<65,80,80,76,73,67,65,84,73,79,78>> (* "APPLICATION" *), Date2023) >>,
      << >>,
      << Without(RawFiling(<<84,101,108,101,99,111,109,115>> (* "Telecoms" *), <<65,80,80,76,73,67,65,84,73,79,78>> (* "APPLICATION" *), Date2023), "submission_id") >>,
      << RawFiling(<<84,101,108,101,99,111,109>> (* "Telecom" *), <<65,80,80,76,73,67,65,84,73,79,78>> (* "APPLICATION" *), Date2023),
         Without(RawFiling(<<84,101,108,101,99,111,109,44,32,73,110,99,46>> (* "Telecom, Inc." *), <<67,79,77,77,69,78,84>> (* "COMMENT" *), <<>>), "date_received") >> }

InitRuns ==
    /\ filings \in RunBatches
    /\ pc = "group"
    /\ n = 1
    /\ grouped = EmptyDict
    /\ order = <<>>
    /\ keys = <<>>
    /\ i = 0
    /\ j = 0
    /\ skip_keys = {}
    /\ compared = {}
    /\ pos = 0
    /\ structured_companies = <<>>
    /\ validation_errors = 0
    /\ error_log = <<>>
    /\ validation_stats = None
    /\ val_file \in Stores
    /\ run = 1
    /\ val_initial = val_file
    /\ emitted = {}
    /\ normalized = <<>>
    /\ NoMain
    /\ NoPipeline /\ NoOverlap /\ NoFetch /\ NoEnrich

\* the script is started again, after a run that returned or raised, over the
\* data directory the earlier runs left
NextRun ==
    /\ pc \in {"done", "raised"}
    /\ run < MaxRuns
    /\ filings' \in RunBatches
    /\ pc' = "group"
    /\ n' = 1
    /\ grouped' = EmptyDict
    /\ order' = <<>>
    /\ keys' = <<>>
    /\ i' = 0
    /\ j' = 0
    /\ skip_keys' = {}
    /\ compared' = {}
    /\ pos' = 0
    /\ structured_companies' = <<>>
    /\ validation_errors' = 0
    /\ error_log' = <<>>
    /\ validation_stats' = None
    /\ normalized' = <<>>
    /\ run' = run + 1
    /\ emitted' = emitted \cup
           { <<structured_companies[m].normalized_name, structured_companies[m].id>> :
                 m \in 1..Len(structured_companies) }
    /\ UNCHANGED <<val_file, val_initial>>
    /\ UNCHANGED others

NextRuns == Next \/ NextRun

SpecRuns == InitRuns /\ [][NextRuns]_vars

\* structure_data is entered: the locals before the grouping loop
Entry ==
    /\ pc = "group"
    /\ n = 1
    /\ grouped = EmptyDict
    /\ order = <<>>
    /\ keys = <<>>
    /\ i = 0
    /\ j = 0
    /\ skip_keys = {}
    /\ compared = {}
    /\ pos = 0
    /\ structured_companies = <<>>
    /\ validation_errors = 0
    /\ error_log = <<>>
    /\ validation_stats = None
    /\ normalized = <<>>

\* the first run over a data directory without a history file
FirstRun ==
    /\ val_file = Absent
    /\ run = 1
    /\ val_initial = val_file
    /\ emitted = {}

(***************************************************************************)
(* Two calls of structure_data, the second on a permutation of the batch.  *)
(***************************************************************************)

\* the batches that are permuted
PermBatches ==
    RunBatches \cup {AlphaBatch, EdgeBatch, PluralBatch, RatioBatch, TieBatch, DateOrderBatch}

\* the permutations of 1..len
Shuffles(len) ==
    {p \in [1..len -> 1..len] : \A a, b \in 1..len : a # b => p[a] # p[b]}

\* the key of grouped whose list holds the filing at position m, None when
\* the grouping loop dropped the filing
cluster_of(m) ==
    IF normalized[m] = None THEN None
    ELSE CHOOSE k \in DOMAIN grouped : \E q \in 1..Len(grouped[k]) : grouped[k][q] = m

InitPerm ==
    /\ filings \in PermBatches
    /\ Entry
    /\ FirstRun
    /\ NoMain
    /\ NoPipeline /\ NoOverlap /\ NoFetch /\ NoEnrich

\* structure_data is called again with the same filings in another order
PermutedCall ==
    /\ pc \in {"done", "raised"}
    /\ first_call = <<>>
    /\ \E p \in Shuffles(Len(filings)) :
           /\ perm' = p
           /\ filings' = [m \in 1..Len(filings) |-> filings[p[m]]]
    /\ first_call' = <<[keys    |-> DOMAIN grouped,
                        cluster |-> [m \in 1..Len(filings) |-> cluster_of(m)]]>>
    /\ pc' = "group"
    /\ n' = 1
    /\ grouped' = EmptyDict
    /\ order' = <<>>
    /\ keys' = <<>>
    /\ i' = 0
    /\ j' = 0
    /\ skip_keys' = {}
    /\ compared' = {}
    /\ pos' = 0
    /\ structured_companies' = <<>>
    /\ validation_errors' = 0
    /\ error_log' = <<>>
    /\ validation_stats' = None
    /\ normalized' = <<>>
    /\ run' = run + 1
    /\ UNCHANGED <<val_file, val_initial, emitted, mainvars, stagevars>>

NextPerm == Next \/ PermutedCall

SpecPerm == InitPerm /\ [][NextPerm]_vars

(***************************************************************************)
(* The structuring stage: main of structure_data.py.                       *)
(***************************************************************************)

\* OUTPUT_JSON, OUTPUT_COMPANIES_CSV, OUTPUT_FILINGS_CSV
OutputFiles == {"companies_with_filings.json", "companies.csv", "filings.csv"}

\* the script is started: the raw file is missing, is not JSON, or holds a batch
InitMain ==
    /\ input_file \in {"absent", "invalid_json", "json_list"}
    /\ filings \in IF input_file = "json_list" THEN RunBatches \cup Scenarios ELSE {<<>>}
    /\ stage = "start"
    /\ written = {}
    /\ perm = <<>>
    /\ first_call = <<>>
    /\ Entry
    /\ FirstRun
    /\ NoPipeline /\ NoOverlap /\ NoFetch /\ NoEnrich

\* main up to the call of structure_data: return when the raw file is
\* missing, json.load raises when it is not JSON
MainLoad ==
    /\ stage = "start"
    /\ stage' = CASE input_file = "absent" -> "returned"
                  [] input_file = "invalid_json" -> "raised"
                  [] OTHER -> "structuring"
    /\ UNCHANGED <<svars, input_file, written, permvars, stagevars>>

\* structure_data(data) runs
MainStructure ==
    /\ stage = "structuring"
    /\ Next

\* structure_data raised: nothing in main catches it
MainStructureRaised ==
    /\ stage = "structuring"
    /\ pc = "raised"
    /\ stage' = "raised"
    /\ UNCHANGED <<svars, input_file, written, permvars, stagevars>>

\* structure_data returned: the JSON and the two CSV files are written
MainWrite ==
    /\ stage = "structuring"
    /\ pc = "done"
    /\ written' = OutputFiles
    /\ stage' = "written"
    /\ UNCHANGED <<svars, input_file, permvars, stagevars>>

\* the sample print: structured_data[0] raises IndexError on an empty list
MainSample ==
    /\ stage = "written"
    /\ stage' = IF structured_companies = <<>> THEN "raised" ELSE "returned"
    /\ UNCHANGED <<svars, input_file, written, permvars, stagevars>>

NextMain ==
    \/ MainLoad
    \/ MainStructure
    \/ MainStructureRaised
    \/ MainWrite
    \/ MainSample

SpecMain == InitMain /\ [][NextMain]_vars

(***************************************************************************)
(* The pipeline: run_pipeline.py.                                          *)
(***************************************************************************)

\* the return codes a step's command ends with
ExitCodes == {0, 1, 2}

\* the run records run_pipeline can find in data/monitoring/run_stats.json
RunStores ==
    { Absent,
      Store("invalid_json", <<>>),
      Store("json_object", <<[status |-> "success"]>>),
      Store("json_list", <<[status |-> "success"]>>) }

InitPipeline ==
    /\ skip_fetch \in BOOLEAN
    /\ skip_download \in BOOLEAN
    /\ ppc = "fetch"
    /\ invoked = <<>>
    /\ exit_code = <<>>
    /\ run_stats \in RunStores
    /\ run_stats_initial = run_stats
    /\ failed_stats = Absent
    /\ val_file \in Stores
    /\ val_initial = val_file
    /\ filings = <<>>
    /\ Entry
    /\ run = 1
    /\ emitted = {}
    /\ NoMain /\ NoOverlap /\ NoFetch /\ NoEnrich

\* the step's return code is taken for success
step_failed_never(returncode) == FALSE

\* run_step: `if result.returncode != 0`
step_failed(returncode) == returncode # 0

\* run_step(step, command): the command runs and ends with returncode;
\* sys.exit(returncode) when it failed, which nothing catches, else main goes
\* on to next
run_step(step, returncode, next) ==
    /\ invoked' = Append(invoked, [step |-> step, returncode |-> returncode])
    /\ IF step_failed(returncode)
       THEN /\ ppc' = "exited"
            /\ exit_code' = <<returncode>>
       ELSE /\ ppc' = next
            /\ UNCHANGED exit_code

\* 1. FETCH DATA, unless --skip-fetch
FetchStage ==
    /\ ppc = "fetch"
    /\ IF skip_fetch
       THEN /\ ppc' = "structure"
            /\ UNCHANGED <<invoked, exit_code>>
       ELSE \E returncode \in ExitCodes : run_step("fetch", returncode, "structure")
    /\ UNCHANGED <<svars, mainvars, permvars, overlapvars, fetchvars, enrichvars,
                   skip_fetch, skip_download, run_stats, run_stats_initial, failed_stats>>

\* 2. STRUCTURE DATA: code/structure_data.py leaves the validation history
\* as it is (no raw file, or it raised before line 290) or appends its record
StructureStage ==
    /\ ppc = "structure"
    /\ \E returncode \in ExitCodes : run_step("structure", returncode, "enrich")
    /\ val_file' \in {val_file,
                      dump_history(history_append(load_history(val_file),
                                                  [OldStats EXCEPT !.timestamp = run]))}
    /\ UNCHANGED slocals
    /\ UNCHANGED <<mainvars, permvars, overlapvars, fetchvars, enrichvars,
                   skip_fetch, skip_download, run_stats, run_stats_initial, failed_stats>>

\* 3. ENRICH DATA
EnrichStage ==
    /\ ppc = "enrich"
    /\ \E returncode \in ExitCodes : run_step("enrich", returncode, "download")
    /\ UNCHANGED <<svars, mainvars, permvars, overlapvars, fetchvars, enrichvars,
                   skip_fetch, skip_download, run_stats, run_stats_initial, failed_stats>>

\* 4. DOWNLOAD DOCUMENTS, unless --skip-download
DownloadStage ==
    /\ ppc = "download"
    /\ IF skip_download
       THEN /\ ppc' = "stats"
            /\ UNCHANGED <<invoked, exit_code>>
       ELSE \E returncode \in ExitCodes : run_step("download", returncode, "stats")
    /\ UNCHANGED <<svars, mainvars, permvars, overlapvars, fetchvars, enrichvars,
                   skip_fetch, skip_download, run_stats, run_stats_initial, failed_stats>>

\* val_stats of the run record: {} without a validation file, the last
\* record of a non-empty list, else the content
val_stats(file) ==
    IF file.state = "absent" THEN EmptyDict
    ELSE IF file.state = "json_list"
    THEN (IF file.items # <<>> THEN file.items[Len(file.items)] ELSE <<>>)
    ELSE file.items[1]

\* the end of main and the handler under __main__: reading the validation
\* file raises when it cannot be opened or parsed, and the handler writes a
\* failed record to data/run_stats.json and raises again; else the success
\* record is appended to the history in data/monitoring/run_stats.json
WriteStats ==
    /\ ppc = "stats"
    /\ IF val_file.state \in {"unreadable", "invalid_json"}
       THEN /\ failed_stats' = Store("json_object", <<[status |-> "failed"]>>)
            /\ exit_code' = <<1>>
            /\ UNCHANGED run_stats
       ELSE /\ run_stats' =
                   dump_history(history_append(load_history(run_stats),
                       [status |-> "success", validation_report |-> val_stats(val_file)]))
            /\ exit_code' = <<0>>
            /\ UNCHANGED failed_stats
    /\ ppc' = "exited"
    /\ UNCHANGED <<svars, mainvars, permvars, overlapvars, fetchvars, enrichvars,
                   skip_fetch, skip_download, invoked, run_stats_initial>>

NextPipeline ==
    \/ FetchStage
    \/ StructureStage
    \/ EnrichStage
    \/ DownloadStage
    \/ WriteStats

SpecPipeline == InitPipeline /\ [][NextPipeline]_vars

(***************************************************************************)
(* Two overlapping runs at lines 290-309 of structure_data: run 1 started  *)
(* by the scheduler's run_job, run 2 from the dashboard.                   *)
(***************************************************************************)

OverlapRuns == {1, 2}

\* the validation_stats of run r
stats_of(r) == [OldStats EXCEPT !.timestamp = r]

\* the file as open(val_file, "w") leaves it: empty, which json.load rejects
Truncated == Store("invalid_json", <<>>)

InitOverlap ==
    /\ opc = [r \in OverlapRuns |-> "read"]
    /\ local_history = [r \in OverlapRuns |-> <<>>]
    /\ val_file \in Stores
    /\ val_initial = val_file
    /\ filings = <<>>
    /\ Entry
    /\ run = 1
    /\ emitted = {}
    /\ NoMain /\ NoPipeline /\ NoFetch /\ NoEnrich

\* lines 291-306: the history is read and the record appended in memory
ReadHistory(r) ==
    /\ opc[r] = "read"
    /\ local_history' =
           [local_history EXCEPT ![r] = history_append(load_history(val_file), stats_of(r))]
    /\ opc' = [opc EXCEPT ![r] = "open"]
    /\ UNCHANGED val_file
    /\ UNCHANGED <<slocals, mainvars, permvars, pipevars, fetchvars, enrichvars>>

\* line 308: open(val_file, "w") truncates the file
OpenHistory(r) ==
    /\ opc[r] = "open"
    /\ val_file' = Truncated
    /\ opc' = [opc EXCEPT ![r] = "dump"]
    /\ UNCHANGED local_history
    /\ UNCHANGED <<slocals, mainvars, permvars, pipevars, fetchvars, enrichvars>>

\* line 309: json.dump writes the list from the start of the file; over
\* what another run wrote since the open, text of that run may be left
\* behind the end of it
DumpHistory(r) ==
    /\ opc[r] = "dump"
    /\ val_file' \in IF val_file = Truncated
                      THEN {dump_history(local_history[r])}
                      ELSE {dump_history(local_history[r]), Store("invalid_json", <<>>)}
    /\ opc' = [opc EXCEPT ![r] = "done"]
    /\ UNCHANGED local_history
    /\ UNCHANGED <<slocals, mainvars, permvars, pipevars, fetchvars, enrichvars>>

NextOverlap ==
    \/ \E r \in OverlapRuns : ReadHistory(r)
    \/ \E r \in OverlapRuns : OpenHistory(r)
    \/ \E r \in OverlapRuns : DumpHistory(r)

SpecOverlap == InitOverlap /\ [][NextOverlap]_vars

(***************************************************************************)
(* fetch_all_filings of fetch.py against a server that holds the records   *)
(* 1..server for the query and honours limit and offset.                   *)
(***************************************************************************)

\* the most records the server holds
MaxServer == 5

\* the largest page size
MaxLimit == 3

\* the largest cap
MaxCap == 3

\* request_page: the records of the page, and the total when it is reported
request_page(lim, off) ==
    [records |-> [k \in 1..(IF server - off < 0 THEN 0
                            ELSE IF server - off < lim THEN server - off ELSE lim) |-> off + k],
     total   |-> IF reports_total THEN server ELSE 0]

InitFetch ==
    /\ server \in 0..MaxServer
    /\ reports_total \in BOOLEAN
    /\ limit \in 1..MaxLimit
    /\ max_records \in 0..MaxCap
    /\ offset = 0
    /\ all_records = <<>>
    /\ known_total = 0
    /\ fpc = "loop"
    /\ request_failed = FALSE
    /\ filings = <<>>
    /\ Entry
    /\ FirstRun
    /\ NoMain /\ NoPipeline /\ NoOverlap /\ NoEnrich

\* the page that stops the loop whenever it is not longer than limit
short_page_or_full(count, lim) == count <= lim

\* `if len(records) < limit`
short_page(count, lim) == count < lim

\* one iteration of `while True` whose request succeeds
FetchPage ==
    /\ fpc = "loop"
    /\ LET page == request_page(limit, offset)
           new_total == IF known_total = 0 /\ page.total > 0 THEN page.total ELSE known_total
           collected == all_records \o page.records
       IN  /\ known_total' = new_total
           /\ all_records' = collected
           /\ IF \/ page.records = <<>>
                 \/ short_page(Len(page.records), limit)
                 \/ new_total # 0 /\ Len(collected) >= new_total
                 \/ max_records # 0 /\ Len(collected) >= max_records
              THEN /\ fpc' = "returned"
                   /\ UNCHANGED offset
              ELSE /\ offset' = offset + limit
                   /\ UNCHANGED fpc
    /\ UNCHANGED <<server, reports_total, limit, max_records, request_failed>>
    /\ UNCHANGED <<svars, mainvars, permvars, pipevars, overlapvars, enrichvars>>

\* an iteration whose request raises: the loop breaks
FetchFails ==
    /\ fpc = "loop"
    /\ request_failed' = TRUE
    /\ fpc' = "returned"
    /\ UNCHANGED <<server, reports_total, limit, max_records, offset, all_records, known_total>>
    /\ UNCHANGED <<svars, mainvars, permvars, pipevars, overlapvars, enrichvars>>

NextFetch == FetchPage \/ FetchFails

SpecFetch == InitFetch /\ [][NextFetch]_vars

\* the loop does not stand still: every iteration is followed by the next
\* one until a break
SpecFetchLive == SpecFetch /\ WF_vars(NextFetch)

(***************************************************************************)
(* main of enrich_data.py: the loop over the companies and the cache.  A   *)
(* company stands for its normalized name, its position in the input.      *)
(***************************************************************************)

\* the most companies in the input
MaxCompanies == 10

\* `if (i + 1) % 10 == 0`
SavePeriod == 10

\* the keys enrichment_cache.json can hold when the run starts
CacheFiles == {{}, {5}, {10}, {3, 10}, 1..9}

\* main up to the loop: the companies are loaded, cache = load_cache()
InitEnrich ==
    /\ companies \in {[k \in 1..len |-> k] : len \in 0..MaxCompanies}
    /\ cache_file \in CacheFiles
    /\ cache = cache_file
    /\ ei = 0
    /\ obtained = {}
    /\ epc = "loop"
    /\ filings = <<>>
    /\ Entry
    /\ FirstRun
    /\ NoMain /\ NoPipeline /\ NoOverlap /\ NoFetch

\* whether the iteration for index i saves the cache: the `continue` of a
\* company served from the cache leaves the loop body before the save
save_due(index, cached) == ~cached /\ (index + 1) % SavePeriod = 0

\* one iteration of `for i, company in enumerate(companies)`; enrich_company
\* returns a result or None
EnrichStep ==
    /\ epc = "loop"
    /\ ei < Len(companies)
    /\ LET normalized_name == companies[ei + 1]
           cached == normalized_name \in cache
       IN  /\ \E result \in IF cached THEN {FALSE} ELSE BOOLEAN :
                  /\ cache' = IF result THEN cache \cup {normalized_name} ELSE cache
                  /\ obtained' = IF result THEN obtained \cup {normalized_name} ELSE obtained
           /\ cache_file' = IF save_due(ei, cached) THEN cache' ELSE cache_file
    /\ ei' = ei + 1
    /\ UNCHANGED <<companies, epc>>
    /\ UNCHANGED <<svars, mainvars, permvars, pipevars, overlapvars, fetchvars>>

\* save_cache(cache) after the loop
EnrichEnd ==
    /\ epc = "loop"
    /\ ei = Len(companies)
    /\ cache_file' = cache
    /\ epc' = "done"
    /\ UNCHANGED <<companies, ei, cache, obtained>>
    /\ UNCHANGED <<svars, mainvars, permvars, pipevars, overlapvars, fetchvars>>

NextEnrich == EnrichStep \/ EnrichEnd

SpecEnrich == InitEnrich /\ [][NextEnrich]_vars

(***************************************************************************)
(* Properties.                                                             *)
(***************************************************************************)

\* the run is past the call: it returned or it raised
Ended == pc \in {"done", "raised"}

\* the filings (positions in the batch) that the grouping loop filed under
\* key k, in the order of the batch, from position m on
RECURSIVE GroupedUnder(_, _)
GroupedUnder(k, m) ==
    IF m > Len(normalized) THEN <<>>
    ELSE (IF normalized[m] = k THEN <<m>> ELSE <<>>) \o GroupedUnder(k, m + 1)

\* the elements of a list, as a set
Elems(list) == {list[m] : m \in 1..Len(list)}

\* the uppercased submission_type names an application, a request or a petition
ApplicationType(type) ==
    /\ type # None
    /\ \/ Contains(<<65,80,80,76,73,67,65,84,73,79,78>> (* "APPLICATION" *), upper(type))
       \/ Contains(<<82,69,81,85,69,83,84>> (* "REQUEST" *), upper(type))
       \/ Contains(<<80,69,84,73,84,73,79,78>> (* "PETITION" *), upper(type))

\* C1: a Company is emitted for a cluster only if at least one filing of the
\* cluster has an application-type submission_type and the cluster is not
\* classified Individual; a cluster whose filings are all "COMMENT" is never
\* emitted.
C1_EmissionGate ==
    \A m \in 1..Len(structured_companies) :
        LET c == structured_companies[m]
        IN  /\ \E k \in 1..Len(c.filings) : ApplicationType(c.filings[k].submission_type)
            /\ c.entity_type # "Individual"
            /\ ~is_likely_individual(c.entity_name)
            /\ \E k \in 1..Len(c.filings) : c.filings[k].submission_type # <<67,79,77,77,69,78,84>> (* "COMMENT" *)

\* a run that emitted a company and passed over a cluster of comments only and
\* over a cluster classified Individual
C1_Witness ==
    /\ pc = "done"
    /\ Len(structured_companies) >= 1
    /\ \E k \in DOMAIN grouped :
           /\ \A m \in 1..Len(grouped[k]) :
                  Get(filings[grouped[k][m]], "submission_type", <<>>) = <<67,79,77,77,69,78,84>> (* "COMMENT" *)
           /\ \A m \in 1..Len(structured_companies) :
                  structured_companies[m].normalized_name # k
    /\ \E k \in DOMAIN grouped :
           /\ \A m \in 1..Len(grouped[k]) :
                  /\ is_likely_individual(Get(filings[grouped[k][m]], "company_name", <<>>))
                  /\ is_application_type(filings[grouped[k][m]])
           /\ \A m \in 1..Len(structured_companies) :
                  structured_companies[m].normalized_name # k

\* C2: the end-to-end scenario emits exactly one Company, "Acme Communications
\* LLC", with filing_count 2, the filings ordered 2023-06-01 then 2023-05-01,
\* entity_type "Company" and is_applicant true.
C2_AcmeScenario ==
    (filings = AcmeBatch /\ Ended) =>
        /\ pc = "done"
        /\ Len(structured_companies) = 1
        /\ structured_companies[1].entity_name = <<65,99,109,101,32,67,111,109,109,117,110,105,99,97,116,105,111,110,115,32,76,76,67>> (* "Acme Communications LLC" *)
        /\ structured_companies[1].filing_count = 2
        /\ Len(structured_companies[1].filings) = 2
        /\ structured_companies[1].filings[1].date_received = <<50,48,50,51,45,48,54,45,48,49>> (* "2023-06-01" *)
        /\ structured_companies[1].filings[2].date_received = <<50,48,50,51,45,48,53,45,48,49>> (* "2023-05-01" *)
        /\ structured_companies[1].entity_type = "Company"
        /\ structured_companies[1].is_applicant = TRUE

\* C3: when two keys merge, the lexicographically earlier key survives and the
\* later key's filings are appended after the survivor's; the later key leaves
\* the grouping, and an absorbed key is frozen: it stays absorbed, is never
\* compared again and its cluster never comes back.
C3_MergeFreezes ==
    [][ /\ (pc = "dedup" /\ grouped' # grouped) =>
              /\ i <= Len(keys) /\ j <= Len(keys)
              /\ StrLess(keys[i], keys[j])
              /\ keys[i] \notin skip_keys /\ keys[j] \notin skip_keys
              /\ keys[i] \in DOMAIN grouped'
              /\ grouped'[keys[i]] = grouped[keys[i]] \o grouped[keys[j]]
              /\ keys[j] \notin DOMAIN grouped'
              /\ skip_keys' = skip_keys \cup {keys[j]}
              /\ \A k \in DOMAIN grouped \ {keys[i], keys[j]} :
                     k \in DOMAIN grouped' /\ grouped'[k] = grouped[k]
        /\ \A k \in skip_keys :
              /\ k \in skip_keys'
              /\ k \notin DOMAIN grouped'
              /\ \A pair \in compared' \ compared : pair[1] # k /\ pair[2] # k
      ]_vars

\* a finished run in which a key was absorbed and comparisons followed
C3_Witness ==
    /\ pc = "done"
    /\ skip_keys # {}
    /\ Len(keys) >= 3
    /\ \E pair \in compared : pair[2] \notin skip_keys

\* C4: the keys "alpha networks", "alpha network" and "alpha netwerks" end as
\* exactly two clusters: "alpha network" with "alpha networks", and "alpha
\* netwerks" alone.
C4_AlphaClusters ==
    (filings = AlphaBatch /\ pc \in {"assemble", "done", "raised"}) =>
        /\ keys = << <<97,108,112,104,97,32,110,101,116,119,101,114,107,115>> (* "alpha netwerks" *), <<97,108,112,104,97,32,110,101,116,119,111,114,107>> (* "alpha network" *), <<97,108,112,104,97,32,110,101,116,119,111,114,107,115>> (* "alpha networks" *) >>
        /\ DOMAIN grouped = { <<97,108,112,104,97,32,110,101,116,119,111,114,107>> (* "alpha network" *), <<97,108,112,104,97,32,110,101,116,119,101,114,107,115>> (* "alpha netwerks" *) }
        /\ Elems(grouped[ <<97,108,112,104,97,32,110,101,116,119,111,114,107>> (* "alpha network" *) ]) = {1, 2}
        /\ grouped[ <<97,108,112,104,97,32,110,101,116,119,101,114,107,115>> (* "alpha netwerks" *) ] = <<3>>

C4_Witness == filings = AlphaBatch /\ pc = "done" /\ Cardinality(DOMAIN grouped) = 2

\* C5: the pass is pairwise: for three keys A < B < C where A and B match, B
\* and C match and A and C do not, it ends with A holding the filings of A and
\* B, and C alone; no key lies in a cluster whose surviving key it does not
\* itself match.
C5_NonTransitive ==
    (pc \in {"assemble", "done", "raised"}) =>
        /\ (/\ Len(keys) = 3
            /\ is_duplicate(keys[1], keys[2])
            /\ is_duplicate(keys[2], keys[3])
            /\ ~is_duplicate(keys[1], keys[3])) =>
               /\ DOMAIN grouped = {keys[1], keys[3]}
               /\ grouped[keys[1]] = GroupedUnder(keys[1], 1) \o GroupedUnder(keys[2], 1)
               /\ grouped[keys[3]] = GroupedUnder(keys[3], 1)
        /\ \A a \in DOMAIN grouped : \A m \in 1..Len(grouped[a]) :
               LET c == normalized[grouped[a][m]]
               IN  c = a \/ (StrLess(a, c) /\ is_duplicate(a, c))

\* a finished run over a chain of three keys
C5_Witness ==
    /\ pc = "done"
    /\ Len(keys) = 3
    /\ is_duplicate(keys[1], keys[2])
    /\ is_duplicate(keys[2], keys[3])
    /\ ~is_duplicate(keys[1], keys[3])
    /\ Cardinality(DOMAIN grouped) = 2

\* the pass compared k1 with k2 and merged k2 into k1
MergedPair(k1, k2) ==
    /\ <<k1, k2>> \in compared
    /\ k1 \in DOMAIN grouped
    /\ k2 \notin DOMAIN grouped
    /\ \E m \in 1..Len(grouped[k1]) : normalized[grouped[k1][m]] = k2

\* the token pairs of two keys that differ
DifferingTokens(k1, k2) ==
    LET words1 == split(k1)
        words2 == split(k2)
    IN  {m \in 1..Len(words1) : m <= Len(words2) /\ words1[m] # words2[m]}

\* the m-th tokens of the keys differ only by a trailing "s" on one side
PluralPair(k1, k2, m) ==
    LET w1 == split(k1)[m]
        w2 == split(k2)[m]
    IN  w1 \o <<115>> = w2 \/ w2 \o <<115>> = w1

\* two keys of the same number of tokens whose ratio is not above 0.95
TokenRuleDecides(k1, k2) ==
    /\ Len(split(k1)) = Len(split(k2))
    /\ LET r == ratio(k1, k2) IN 20 * r.num <= 19 * r.den

Occurrences(m) ==
    LET RECURSIVE count(_, _)
        count(list, p) ==
            IF p > Len(list) THEN 0
            ELSE (IF list[p] = m THEN 1 ELSE 0) + count(list, p + 1)
        RECURSIVE total(_)
        total(ks) ==
            IF ks = {} THEN 0
            ELSE LET k == CHOOSE x \in ks : TRUE
                 IN  count(grouped[k], 1) + total(ks \ {k})
    IN  total(DOMAIN grouped)

\* C7: the pass conserves filings: every filing grouped under some key before
\* the pass is in the list of exactly one surviving key, once, and no other
\* filing is in any list.
C7_FilingsConserved ==
    (pc # "group") =>
        /\ \A m \in 1..Len(filings) :
               Occurrences(m) = IF normalized[m] = None THEN 0 ELSE 1
        /\ DOMAIN grouped = Elems(order)
        /\ DOMAIN grouped \cap skip_keys = {}
        /\ DOMAIN grouped \cup skip_keys = Elems(keys)

\* a finished run in which a merge moved filings
C7_Witness ==
    /\ pc = "done"
    /\ skip_keys # {}
    /\ \E k \in DOMAIN grouped : Len(grouped[k]) >= 3

\* the lowercased company_name of raw filing f matches an exclusion pattern
NameExcluded(f) ==
    LET raw  == Get(f, "company_name", <<>>)
        name == SubSeq(lower(raw), 1, Len(raw))
    IN  \E p \in 1..Len(EXCLUDE_PATTERNS) : re_search(EXCLUDE_PATTERNS[p], name)

\* C8: a raw filing whose lowercased company_name matches an exclusion pattern
\* never enters a cluster: it is in no list of grouped and in no Company's
\* filings, and its name is never an entity_name.
C8_ExcludedNeverClustered ==
    \A m \in 1..Len(filings) :
        \/ /\ Occurrences(m) = 0
           /\ \A c \in 1..Len(structured_companies) :
                  /\ \A k \in 1..Len(structured_companies[c].filings) :
                         structured_companies[c].filings[k].src # m
                  /\ structured_companies[c].entity_name # filings[m].company_name
        \/ ~NameExcluded(filings[m])

\* a finished run that emitted a company from a batch holding an excluded name
C8_Witness ==
    /\ pc = "done"
    /\ Len(structured_companies) >= 1
    /\ \E m \in 1..Len(filings) : NameExcluded(filings[m]) /\ is_ipes(filings[m])

\* C9: filing_count equals the length of the filings list of every Company.
C9_FilingCount ==
    \A c \in 1..Len(structured_companies) :
        structured_companies[c].filing_count = Len(structured_companies[c].filings)

\* a finished run that emitted a company of several filings
C9_Witness ==
    /\ pc = "done"
    /\ \E c \in 1..Len(structured_companies) : Len(structured_companies[c].filings) >= 2

\* a date_received that is there and not empty
Populated(date) == date # None /\ date # <<>>

\* C10: the filings of every Company are ordered by date_received descending,
\* and every filing whose date_received is missing or empty comes after every
\* filing with a populated date.
C10_FilingsNewestFirst ==
    \A c \in 1..Len(structured_companies) :
        LET fs == structured_companies[c].filings
        IN  \A p \in 1..Len(fs) : \A q \in (p + 1)..Len(fs) :
                /\ Populated(fs[q].date_received) => Populated(fs[p].date_received)
                /\ (Populated(fs[p].date_received) /\ Populated(fs[q].date_received)) =>
                       ~StrLess(fs[p].date_received, fs[q].date_received)

\* a finished run that emitted a company whose filings came in another order:
\* an empty date first, then an older and a newer date
C10_Witness ==
    /\ pc = "done"
    /\ \E c \in 1..Len(structured_companies) :
           LET fs == structured_companies[c].filings
           IN  /\ Len(fs) = 3
               /\ fs[1].src = 3 /\ fs[2].src = 2 /\ fs[3].src = 1
               /\ fs[1].date_received = Date2024
               /\ fs[2].date_received = Date2023
               /\ fs[3].date_received = <<>>

\* a Company of key k is among the emitted ones
ClusterEmitted(k) ==
    \E c \in 1..Len(structured_companies) : structured_companies[c].normalized_name = k

\* a validation failure of key k is in the error log
ClusterFailed(k) ==
    \E e \in 1..Len(error_log) : error_log[e].name = k

\* the cluster of key k has an application-type filing and its longest name
\* does not look like an individual's
GatePassed(k) ==
    LET names == [m \in 1..Len(grouped[k]) |->
                     Get(filings[grouped[k][m]], "company_name", <<>>)]
    IN  /\ \E m \in 1..Len(grouped[k]) :
               ApplicationType(Get(filings[grouped[k][m]], "submission_type", None))
        /\ ~is_likely_individual(primary_name(names, k))

\* the fields of a raw filing that a Filing takes as str
RequiredFields ==
    {"submission_id", "date_received", "docket_number", "submission_type",
     "filing_status", "detail_url"}

\* a raw filing of the cluster of key k lacks a field a Filing requires
LacksField(k) ==
    \E m \in 1..Len(grouped[k]) : ~(RequiredFields \subseteq DOMAIN filings[grouped[k][m]])

\* the clusters the assembly loop is past
Assembled == {m \in 1..Len(order) : m < pos}

\* C11: a schema-validation failure of one assembled Company does not abort
\* the batch: the loop goes on, every cluster it is past is emitted, counted as
\* a failure or held back by the gate, and the failures are counted; the batch
\* of one failing and nine passing clusters yields 9 companies and
\* invalid_records = 1.
C11_FailureDoesNotAbort ==
    /\ (pc \in {"assemble", "done", "raised"}) =>
           /\ validation_errors = Len(error_log)
           /\ validation_errors = Cardinality({m \in Assembled : ClusterFailed(order[m])})
           /\ \A m \in Assembled :
                  /\ ClusterEmitted(order[m]) <=>
                         (GatePassed(order[m]) /\ ~LacksField(order[m]))
                  /\ ClusterFailed(order[m]) <=>
                         (GatePassed(order[m]) /\ LacksField(order[m]))
           /\ \A k \in DOMAIN grouped :
                  (ClusterEmitted(k) \/ ClusterFailed(k)) =>
                      \E m \in Assembled : order[m] = k
    /\ (filings = TenBatch /\ Ended) =>
           /\ pc = "done"
           /\ Len(structured_companies) = 9
           /\ validation_stats.invalid_records = 1
           /\ ~ClusterEmitted(<<118,111,105,112,32,100>> (* "voip d" *))

\* the run over the ten clusters, returned: a failure was counted and clusters
\* after it were emitted
C11_Witness ==
    /\ filings = TenBatch
    /\ pc = "done"
    /\ validation_errors = 1
    /\ ClusterFailed(<<118,111,105,112,32,100>> (* "voip d" *))
    /\ ClusterEmitted(<<118,111,105,112,32,101>> (* "voip e" *))
    /\ ClusterEmitted(<<118,111,105,112,32,106>> (* "voip j" *))

\* C12: structure_data never raises on input malformation: whatever fields
\* the records of the batch lack, also in clusters of two or more filings
\* where some lack date_received, the call returns.
C12_NeverRaises == pc # "raised"

\* the value a Filing holds for the field of a raw filing
FilingField(r, field) ==
    IF field = "submission_id" THEN r.filing_id
    ELSE IF field = "date_received" THEN r.date_received
    ELSE IF field = "docket_number" THEN r.docket_number
    ELSE IF field = "submission_type" THEN r.submission_type
    ELSE IF field = "filing_status" THEN r.filing_status
    ELSE r.detail_url

\* C13: a field missing from a raw record defaults to the empty string in the
\* Filing built from it, so a cluster that passes the emission gate is emitted
\* as a valid Company also when one of its raw records lacks submission_id,
\* date_received, docket_number, filing_status or detail_url.
C13_MissingFieldsDefault ==
    (pc = "done") =>
        \A k \in DOMAIN grouped :
            GatePassed(k) =>
                /\ ClusterEmitted(k)
                /\ \A c \in 1..Len(structured_companies) :
                       \A m \in 1..Len(structured_companies[c].filings) :
                           LET r == structured_companies[c].filings[m]
                           IN  \A field \in RequiredFields \ DOMAIN filings[r.src] :
                                   FilingField(r, field) = <<>>

\* C14: structure_data called with an empty batch does not abort: it returns
\* zero Company records and appends a stats record with valid_records = 0 and
\* invalid_records = 0 to the history.
C14_EmptyBatch ==
    (filings = <<>> /\ pc \notin {"group", "dedup", "assemble"}) =>
        /\ pc = "done"
        /\ structured_companies = <<>>
        /\ validation_stats.valid_records = 0
        /\ validation_stats.invalid_records = 0
        /\ val_file.state = "json_list"
        /\ Len(val_file.items) >= 1
        /\ val_file.items[Len(val_file.items)] = validation_stats
        /\ (run = 1 /\ val_initial.state = "json_list") =>
               val_file.items = val_initial.items \o <<validation_stats>>

\* an empty batch as the second run, after a run that left a record
C14_Witness ==
    /\ filings = <<>>
    /\ pc = "done"
    /\ run = 2
    /\ Len(val_file.items) >= 2
    /\ val_file.items[Len(val_file.items)].timestamp = 2

\* C15: the id of every emitted Company is a function of its normalized_name
\* alone: Companies of the same normalized_name have the same id in every
\* run, whatever else the batches hold, and two Companies of one run never
\* share an id.
C15_IdFromName ==
    /\ \A c \in 1..Len(structured_companies) :
           /\ \A e \in emitted :
                  e[1] = structured_companies[c].normalized_name =>
                      e[2] = structured_companies[c].id
           /\ \A d \in 1..Len(structured_companies) :
                  c # d => structured_companies[c].id # structured_companies[d].id
    /\ \A e1, e2 \in emitted : e1[1] = e2[1] => e1[2] = e2[2]

\* a run that emitted two companies, one of a normalized_name an earlier run
\* emitted from another batch
C15_Witness ==
    /\ pc = "done"
    /\ run >= 2
    /\ Len(filings) = 3
    /\ Len(structured_companies) = 2
    /\ \E c \in 1..Len(structured_companies) : \E e \in emitted :
           e[1] = structured_companies[c].normalized_name
    /\ \E c \in 1..Len(structured_companies) : \A e \in emitted :
           e[1] # structured_companies[c].normalized_name

\* C16: normalize_company_name is idempotent: the key it returns for a raw
\* name, under which the filing is grouped, is returned unchanged when
\* normalized again.
C16_NormalizeIdempotent ==
    \A k \in DOMAIN grouped : normalize_company_name(k) = k

\* the raw company_name of the filing at position p of the batch
RawName(p) == Get(filings[p], "company_name", <<>>)

\* C17: the entity_name of every Company is the longest raw company_name of
\* the cluster's filings, and of several longest ones the one whose filing is
\* earliest in the input, also in a cluster formed by a merge.
C17_LongestFirstEncountered ==
    \A c \in 1..Len(structured_companies) :
        LET members == {structured_companies[c].filings[m].src :
                            m \in 1..Len(structured_companies[c].filings)}
            first   == CHOOSE p \in members :
                           \A q \in members :
                               \/ Len(RawName(q)) < Len(RawName(p))
                               \/ Len(RawName(q)) = Len(RawName(p)) /\ p <= q
        IN  structured_companies[c].entity_name = RawName(first)

\* C18: each run appends exactly one stats record to the history and leaves
\* the stored records as they are, so after N runs from an absent store (or
\* from a stored list) the history holds the N records in run order, after
\* the records stored before.
C18_HistoryGrowsByOne ==
    (pc \in {"done", "raised"} /\ val_initial.state \in {"absent", "json_list"}) =>
        /\ val_file.state = "json_list"
        /\ Len(val_file.items) = Len(val_initial.items) + run
        /\ SubSeq(val_file.items, 1, Len(val_initial.items)) = val_initial.items
        /\ \A r \in 1..run : val_file.items[Len(val_initial.items) + r].timestamp = r

\* C19: if the store is missing or malformed (unreadable, not valid JSON, or
\* not a list) when structure_data runs, the run does not fail and the history
\* after it is exactly the one new stats record.
C19_FreshHistory ==
    (/\ pc \in {"done", "raised"}
     /\ run = 1
     /\ val_initial.state \in {"absent", "unreadable", "invalid_json", "json_object"}) =>
        /\ pc = "done"
        /\ val_file = Store("json_list", <<validation_stats>>)

\* the keys of the clusters that pass the gate and fail validation, in the
\* order of the assembly loop
FailedKeys == SelectSeq(order, LAMBDA k : GatePassed(k) /\ LacksField(k))

\* C20: the stats record of a run has valid_records = the number of emitted
\* Companies, invalid_records = the number of clusters that passed the gate
\* and failed validation, total_processed = their sum, and error_samples =
\* the first min(5, invalid_records) failures, each with the normalized name
\* of the cluster and the reason.
C20_StatsRecord ==
    (pc = "done") =>
        /\ validation_stats.valid_records = Len(structured_companies)
        /\ validation_stats.valid_records =
               Cardinality({k \in DOMAIN grouped : GatePassed(k) /\ ~LacksField(k)})
        /\ validation_stats.invalid_records = Len(FailedKeys)
        /\ validation_stats.total_processed =
               validation_stats.valid_records + validation_stats.invalid_records
        /\ Len(validation_stats.error_samples) =
               (IF Len(FailedKeys) < 5 THEN Len(FailedKeys) ELSE 5)
        /\ \A e \in 1..Len(validation_stats.error_samples) :
               /\ validation_stats.error_samples[e].name = FailedKeys[e]
               /\ validation_stats.error_samples[e].error = "ValidationError"

\* a run that returned with six failures and one Company
C20_Witness ==
    /\ pc = "done"
    /\ validation_stats.invalid_records = 6
    /\ validation_stats.valid_records = 1
    /\ Len(validation_stats.error_samples) = 5

\* the latest date_received among the filings of company c
LatestDate(c) ==
    LET dates == {c.filings[m].date_received : m \in 1..Len(c.filings)}
    IN  CHOOSE d \in dates : \A e \in dates : ~StrLess(d, e)

\* C21: the Companies structure_data returns are sorted by most-recent filing
\* date descending: of two consecutive Companies the latest date_received of
\* the first is not earlier than that of the second.
C21_CompaniesNewestFirst ==
    pc = "done" =>
        \A m \in 1..(Len(structured_companies) - 1) :
            ~StrLess(LatestDate(structured_companies[m]),
                     LatestDate(structured_companies[m + 1]))

\* the merge predicate on two keys, taken in ascending order as the pass
\* takes them
Matches(ka, kb) ==
    LET k1 == IF StrLess(ka, kb) THEN ka ELSE kb
        k2 == IF StrLess(ka, kb) THEN kb ELSE ka
    IN  ratio_above_threshold(ratio(k1, k2)) \/ token_rule(k1, k2)

\* the surviving keys that come before k and match it
EarlierMatches(k) == {s \in DOMAIN grouped : StrLess(s, k) /\ Matches(s, k)}

\* C25: after the deduplication pass no two surviving keys satisfy the merge
\* predicate; a key survives exactly when no earlier surviving key matches
\* it, and the filings of an absorbed key lie in the cluster of the smallest
\* surviving key that matches it.
C25_SurvivorsApart ==
    (pc = "assemble" /\ pos = 1) =>
        /\ \A k \in DOMAIN grouped : EarlierMatches(k) = {}
        /\ \A k \in Elems(keys) \ DOMAIN grouped :
               LET earlier == EarlierMatches(k)
               IN  /\ earlier # {}
                   /\ LET s == CHOOSE x \in earlier : \A y \in earlier : ~StrLess(y, x)
                      IN  \A m \in 1..Len(normalized) :
                              normalized[m] = k => m \in Elems(grouped[s])

\* the pass has ended with a key absorbed and two keys surviving
C25_Witness ==
    /\ pc = "assemble" /\ pos = 1
    /\ Elems(keys) \ DOMAIN grouped # {}
    /\ Cardinality(DOMAIN grouped) >= 2

\* C26: main of the structuring stage terminates normally, with the three
\* output files written, also when structure_data returns zero Companies.
C26_ZeroCompaniesReturns ==
    (stage \in {"returned", "raised"} /\ pc = "done" /\ structured_companies = <<>>) =>
        /\ stage = "returned"
        /\ written = OutputFiles

\* the deduplication pass of the call has ended
PassEnded == pc \in {"assemble", "done", "raised"}

\* C22: for two batches that are permutations of each other the
\* deduplication pass yields the same set of surviving keys and assigns every
\* filing to the same surviving key.
C22_PermutationSameClusters ==
    (first_call # <<>> /\ PassEnded) =>
        /\ DOMAIN grouped = first_call[1].keys
        /\ \A m \in 1..Len(filings) : cluster_of(m) = first_call[1].cluster[perm[m]]

\* the second call, on a batch whose order was changed, has merged a key
\* into another one
C22_Witness ==
    /\ first_call # <<>>
    /\ pc = "done"
    /\ \E m \in 1..Len(filings) : perm[m] # m
    /\ \E m \in 1..Len(filings) : normalized[m] \notin {None, cluster_of(m)}

\* the steps run_pipeline runs under its flags, in the order of main
ExpectedSteps ==
    (IF skip_fetch THEN <<>> ELSE <<"fetch">>) \o <<"structure", "enrich">>
        \o (IF skip_download THEN <<>> ELSE <<"download">>)

\* C23: run_pipeline runs its stages in the order fetch, structure, enrich,
\* download, each only after the one before exited with 0; when a stage
\* exits non-zero the pipeline ends with that exit code, no later stage is
\* run and no success record is appended; skipping fetch or download leaves
\* the order of the other stages.
C23_StagesInOrder ==
    /\ Len(invoked) <= Len(ExpectedSteps)
    /\ \A k \in 1..Len(invoked) :
           /\ invoked[k].step = ExpectedSteps[k]
           /\ k < Len(invoked) => invoked[k].returncode = 0
           /\ invoked[k].returncode # 0 =>
                  /\ ppc = "exited"
                  /\ exit_code = <<invoked[k].returncode>>
                  /\ run_stats = run_stats_initial
    /\ ppc = "stats" => Len(invoked) = Len(ExpectedSteps)

\* with fetch skipped, structure exited with 0 and enrich with 2: the
\* pipeline has ended with 2
C23_Witness ==
    /\ skip_fetch /\ ~skip_download
    /\ ppc = "exited"
    /\ Len(invoked) = 2
    /\ invoked[1].step = "structure" /\ invoked[1].returncode = 0
    /\ invoked[2].step = "enrich" /\ invoked[2].returncode = 2
    /\ exit_code = <<2>>

\* the last record the file holds has status "failed"
FailedRecorded(file) ==
    /\ file.state \in {"json_object", "json_list"}
    /\ file.items # <<>>
    /\ file.items[Len(file.items)].status = "failed"

\* C24: whenever a pipeline run ends unsuccessfully, because a stage exited
\* non-zero or because an exception escaped main, a record with status
\* "failed" has been written to the run-stats store (here: to either of the
\* two files the code calls run_stats.json) before the process ends.
C24_FailureRecorded ==
    (ppc = "exited" /\ exit_code # <<0>>) =>
        (FailedRecorded(run_stats) \/ FailedRecorded(failed_stats))

\* C27: when two runs overlap, the validation history after both have
\* finished holds the stats record of each run.
C27_NoRecordLost ==
    (\A r \in OverlapRuns : opc[r] = "done") =>
        /\ val_file.state = "json_list"
        /\ \A r \in OverlapRuns :
               \E k \in 1..Len(val_file.items) : val_file.items[k] = stats_of(r)

\* C28: with max_records unset or 0 and every page request succeeding,
\* fetch_all_filings terminates and returns all the records the server holds,
\* each once and in server order, for every page size.
C28_FetchesAllPages ==
    /\ <>(fpc = "returned")
    /\ []((fpc = "returned" /\ max_records = 0 /\ ~request_failed) =>
              all_records = [k \in 1..server |-> k])

\* a fetch without a cap has returned after three full pages and an empty
\* one, the server not reporting a total
C28_Witness ==
    /\ fpc = "returned"
    /\ max_records = 0 /\ ~request_failed /\ ~reports_total
    /\ limit = 1 /\ server = 3 /\ offset = 3
    /\ all_records = <<1, 2, 3>>

\* C29: with a positive max_records fetch_all_filings returns at most
\* max_records records, for every page size.
C29_AtMostMaxRecords ==
    (fpc = "returned" /\ max_records > 0) => Len(all_records) <= max_records

\* C30: once the loop has handled the company at a 10th position, every
\* result enrich_company returned so far in the run is in the cache file,
\* whether or not that company was served from the cache.
C30_CacheSavedEveryTenth ==
    (epc = "loop" /\ ei > 0 /\ ei % SavePeriod = 0) => obtained \subseteq cache_file

====
